---------------------------- MODULE Spec2Model ----------------------------
(***************************************************************************)
(* A model of the toon-reporter repository: the Vitest reporter            *)
(* (src/src/toon-reporter.ts, both definitions of the class held by the    *)
(* file) and the Playwright reporter (src/src/toon-playwright-reporter.ts, *)
(* the definition at lines 216-519).                                       *)
(*                                                                         *)
(* A string is a sequence of chunks.  A chunk is a one-character TLA+      *)
(* string wherever the code inspects characters (every value handed to     *)
(* toonQuote); fixed message texts that the code only concatenates are     *)
(* kept as one chunk per template part.                                    *)
(*                                                                         *)
(* A document is a sequence of lines; a line is a record                   *)
(*   kind   "scalar" | "header" | "item" | "field" | "row"                 *)
(*   key    the section or field name ("" for a row)                       *)
(*   n      the bracketed count of a header, the number of a numeric       *)
(*          scalar, -1 otherwise                                           *)
(*   fields the brace-wrapped field list of a header (<<>> when absent)    *)
(*   text   the text after the key (a string)                              *)
(*   indent nesting depth in units of the code's indentation               *)
(*   color  the ANSI color wrapped around the line ("" when none)          *)
(*   link   TRUE when text carries an OSC 8 hyperlink                      *)
(*   vals   a row or item written by the TOON library's encode: the values *)
(*          it encodes, in field order (the library's own quoting of a     *)
(*          value is not part of this repository)                          *)
(*   src    the index, in the input collection of its section, of the      *)
(*          record the line renders (0 when it renders no single record)   *)
(***************************************************************************)
EXTENDS Integers, Sequences, FiniteSets, TLC

VARIABLES
    pc,              \* "new" | "begun" | "ran" | "ended": the reporter's life cycle
    options,         \* the reporter's constructor options
    env,             \* the surroundings: process.env.NO_COLOR, process.env.CI and
                     \* whether the runner's configuration names an output file
                     \* for this reporter
    ctx,             \* Vitest: this.ctx ("undefined" before onInit)
    config,          \* Playwright: this.config ("undefined" before onBegin)
    suite,           \* Playwright: this.suite.allTests() / Vitest: getTests(files)
    testsDiscovered, \* Playwright: this.testsDiscovered
    didBegin,        \* Playwright: this._didBegin
    result,          \* Playwright: the FullResult handed to onEnd
    impl,            \* which class definition runs: "vitest" (toon-reporter.ts:75),
                     \* "vitest2" (toon-reporter.ts:421), "playwright", "quote"
    calls,           \* number of writeReport invocations
    sinks,           \* what writeReport delivered, in order: [sink, doc]
    thrown,          \* the error the end-of-run hook rejected with ("none")
    value,           \* toonQuote: the argument of the last call
    quoted           \* toonQuote: its return value

vars == <<pc, options, env, ctx, config, suite, testsDiscovered, didBegin,
          result, impl, calls, sinks, thrown, value, quoted>>

---------------------------------------------------------------------------
(* Characters and strings *)

LF  == "\n"
CR  == "\r"
TAB == "\t"
BSL == "\\"
DQ  == "\""

Digits == {"0", "1", "2", "3", "4", "5", "6", "7", "8", "9"}

\* String.prototype.includes for a one-character needle
includes(s, c) == \E i \in 1..Len(s) : s[i] = c

\* String.prototype.replace(/c/g, rep) for a one-character pattern
RECURSIVE replaceAll(_, _, _)
replaceAll(s, c, rep) ==
    IF s = <<>> THEN <<>>
    ELSE (IF Head(s) = c THEN rep ELSE <<Head(s)>>) \o replaceAll(Tail(s), c, rep)

AllDigits(s, from, to) == \A i \in from..to : s[i] \in Digits

\* /^-?\d+(\.\d+)?$/.test(s)
looksLikeNumber(s) ==
    LET start == IF Len(s) > 0 /\ s[1] = "-" THEN 2 ELSE 1
    IN  \E k \in start..Len(s) :
            /\ AllDigits(s, start, k)
            /\ \/ k = Len(s)
               \/ /\ k + 2 <= Len(s)
                  /\ s[k + 1] = "."
                  /\ AllDigits(s, k + 2, Len(s))

lit_true  == <<"t", "r", "u", "e">>
lit_false == <<"f", "a", "l", "s", "e">>
lit_null  == <<"n", "u", "l", "l">>

\* needsQuote without its test for the literal null
needsQuote_withoutNull(v, delimiter) ==
    \/ includes(v, delimiter)
    \/ includes(v, LF)
    \/ includes(v, CR)
    \/ includes(v, TAB)
    \/ includes(v, BSL)
    \/ includes(v, DQ)
    \/ v = lit_true
    \/ v = lit_false
    \/ looksLikeNumber(v)

\* the test that opens toonQuote (toon-reporter.ts:231-242)
needsQuote(v, delimiter) ==
    \/ includes(v, delimiter)
    \/ includes(v, LF)
    \/ includes(v, CR)
    \/ includes(v, TAB)
    \/ includes(v, BSL)
    \/ includes(v, DQ)
    \/ v = lit_true
    \/ v = lit_false
    \/ v = lit_null
    \/ looksLikeNumber(v)

\* the escaping with the backslash replaced last instead of first
escapeValue_backslashLast(v) ==
    replaceAll(
      replaceAll(
        replaceAll(
          replaceAll(
            replaceAll(v, DQ, <<BSL, DQ>>),
            LF, <<BSL, "n">>),
          CR, <<BSL, "r">>),
        TAB, <<BSL, "t">>),
      BSL, <<BSL, BSL>>)

\* the chain of replace calls of toonQuote (toon-reporter.ts:248-253)
escapeValue(v) ==
    replaceAll(
      replaceAll(
        replaceAll(
          replaceAll(
            replaceAll(v, BSL, <<BSL, BSL>>),
            DQ, <<BSL, DQ>>),
          LF, <<BSL, "n">>),
        CR, <<BSL, "r">>),
      TAB, <<BSL, "t">>)

\* ToonReporter.toonQuote(value, delimiter = ',')
toonQuote(v) ==
    IF ~needsQuote(v, ",") THEN v
    ELSE <<DQ>> \o escapeValue(v) \o <<DQ>>

---------------------------------------------------------------------------
(* Inputs of toonQuote *)

MaxLen == 3

Alphabet == {"a", "n", "r", "t", ",", LF, CR, TAB, BSL, DQ, "-", ".", "1"}

RECURSIVE StringsUpTo(_)
StringsUpTo(k) ==
    IF k = 0 THEN {<<>>}
    ELSE LET shorter == StringsUpTo(k - 1)
         IN  shorter \cup {Append(s, c) : s \in {x \in shorter : Len(x) = k - 1}, c \in Alphabet}

Words == {lit_true, lit_false, lit_null,
          <<"T", "r", "u", "e">>, <<"n", "u", "l">>, <<"t", "r", "u", "e", "e">>,
          <<"-", "1", "2", ".", "5">>, <<"1", ".", "2", ".", "3">>,
          <<"1", "2", ".">>, <<"1", "e", "5">>, <<"+", "1">>}

QuoteInputs == StringsUpTo(MaxLen) \cup Words

---------------------------------------------------------------------------
(* JavaScript values *)

\* an absent optional string (undefined); never a string of characters
Undefined == <<"undefined">>

\* an absent optional number (undefined)
NoNumber == -1

\* JavaScript truthiness of an optional number / an optional string
truthyNum(n) == n > 0
truthyStr(s) == s # Undefined /\ s # <<>>

DigitChar(d) ==
    CASE d = 0 -> "0" [] d = 1 -> "1" [] d = 2 -> "2" [] d = 3 -> "3" [] d = 4 -> "4"
      [] d = 5 -> "5" [] d = 6 -> "6" [] d = 7 -> "7" [] d = 8 -> "8" [] d = 9 -> "9"

\* a template literal's ${n} for a non-negative integer
RECURSIVE NumStr(_)
NumStr(n) == IF n < 10 THEN <<DigitChar(n)>> ELSE Append(NumStr(n \div 10), DigitChar(n % 10))

\* String.prototype.startsWith
startsWith(s, prefix) ==
    /\ Len(s) >= Len(prefix)
    /\ SubSeq(s, 1, Len(prefix)) = prefix

\* message.split('\n')[0]
RECURSIVE firstLine(_)
firstLine(s) ==
    IF s = <<>> \/ Head(s) = LF THEN <<>> ELSE <<Head(s)>> \o firstLine(Tail(s))

\* the concatenation of a sequence of sequences
RECURSIVE Flatten(_)
Flatten(ss) == IF ss = <<>> THEN <<>> ELSE Head(ss) \o Flatten(Tail(ss))

---------------------------------------------------------------------------
(* Lines of a document *)

green  == "green"
red    == "red"
yellow == "yellow"
cyan   == "cyan"
gray   == "gray"

Line(kind, key, n, fields, text, indent, color, link, src) ==
    [kind |-> kind, key |-> key, n |-> n, fields |-> fields, text |-> text,
     indent |-> indent, color |-> color, link |-> link, vals |-> <<>>, src |-> src]

---------------------------------------------------------------------------
(* The Vitest reporter, first definition (src/src/toon-reporter.ts:75-375) *)

(* A test as getTests(files) returns it:                                   *)
(*   mode   t.mode: "run" | "skip" | "todo"                                *)
(*   state  t.result?.state: "pass" | "fail" | "skip" | "none"             *)
(*   each   t.each                                                         *)
(*   file   relative(rootDir, t.file.filepath)                             *)
(*   name   t.name                                                         *)
(*   loc    t.location: [has, line, column]                                *)
(*   error  t.result?.errors?.[0]: [has, stack, eg, name, message], where  *)
(*          stack is what parseLocation finds in error.stack               *)
(*          ([has, relPath, line, column]) and eg what parseExpectedGot    *)
(*          finds in the error ([has, expected, got])                      *)

\* Array.prototype.filter over the tests, keeping the kept tests' indices
RECURSIVE testsWhere(_, _, _, _)
testsWhere(tests, field, val, i) ==
    IF i > Len(tests) THEN <<>>
    ELSE (IF tests[i][field] = val THEN <<i>> ELSE <<>>) \o testsWhere(tests, field, val, i + 1)

\* the location string with line and column written also when no line is known
atString_alwaysWithLine(relPath, line, column) ==
    relPath \o <<":">> \o NumStr(IF truthyNum(line) THEN line ELSE 0) \o <<":">>
            \o NumStr(IF truthyNum(column) THEN column ELSE 0)

\* `${relPath}:${line}:${column || 0}` when line is truthy, else relPath
atString(relPath, line, column) ==
    IF truthyNum(line)
    THEN relPath \o <<":">> \o NumStr(line) \o <<":">>
                 \o NumStr(IF truthyNum(column) THEN column ELSE 0)
    ELSE relPath

msg_timed_out == <<"T", "e", "s", "t", " ", "t", "i", "m", "e", "d", " ", "o", "u", "t">>
name_Error == <<"E", "r", "r", "o", "r">>

\* String(error) for an error object without a message
objectString == <<"[object Object]">>

\* the failure.error text built at toon-reporter.ts:175-185
errorText(error) ==
    LET m0 == IF error.message # <<>> /\ error.message # Undefined
              THEN error.message ELSE objectString
        m1 == IF startsWith(m0, msg_timed_out) THEN firstLine(m0) ELSE m0
    IN  IF truthyStr(error.name) /\ error.name # name_Error /\ ~startsWith(m1, error.name)
        THEN error.name \o <<":", " ">> \o m1
        ELSE m1

\* the failure record with the error text set whenever there is an error
\* object
buildFailure_errorAlways(t) ==
    LET error  == t.error
        parsed == error.has /\ error.stack.has
        hasEG  == error.has /\ error.eg.has
        relPath == IF parsed /\ error.stack.relPath # <<>> THEN error.stack.relPath ELSE t.file
        line == IF parsed /\ truthyNum(error.stack.line) THEN error.stack.line
                ELSE IF t.loc.has THEN t.loc.line ELSE NoNumber
        column == IF parsed /\ truthyNum(error.stack.column) THEN error.stack.column
                  ELSE IF t.loc.has THEN t.loc.column ELSE NoNumber
    IN  [at       |-> atString(relPath, line, column),
         line     |-> line,
         column   |-> column,
         each     |-> t.each,
         expected |-> IF hasEG THEN error.eg.expected ELSE Undefined,
         got      |-> IF hasEG THEN error.eg.got ELSE Undefined,
         error    |-> IF error.has THEN errorText(error) ELSE Undefined]

\* one element of the failures array (toon-reporter.ts:151-189)
buildFailure(t) ==
    LET error  == t.error
        parsed == error.has /\ error.stack.has
        hasEG  == error.has /\ error.eg.has
        relPath == IF parsed /\ error.stack.relPath # <<>> THEN error.stack.relPath ELSE t.file
        line == IF parsed /\ truthyNum(error.stack.line) THEN error.stack.line
                ELSE IF t.loc.has THEN t.loc.line ELSE NoNumber
        column == IF parsed /\ truthyNum(error.stack.column) THEN error.stack.column
                  ELSE IF t.loc.has THEN t.loc.column ELSE NoNumber
    IN  [at       |-> atString(relPath, line, column),
         line     |-> line,
         column   |-> column,
         each     |-> t.each,
         expected |-> IF hasEG THEN error.eg.expected ELSE Undefined,
         got      |-> IF hasEG THEN error.eg.got ELSE Undefined,
         error    |-> IF ~hasEG /\ error.has THEN errorText(error) ELSE Undefined]

\* one element of the skipped / todo arrays (toon-reporter.ts:192-217)
buildSkipped(t) ==
    LET line   == IF t.loc.has THEN t.loc.line ELSE NoNumber
        column == IF t.loc.has THEN t.loc.column ELSE NoNumber
    IN  [at |-> atString(t.file, line, column), line |-> line, column |-> column,
         name |-> t.name]

\* the position of key among the Map's entries, 0 when absent (Map.has)
mapIndex(entries, key) ==
    IF \E k \in 1..Len(entries) : entries[k].key = key
    THEN CHOOSE k \in 1..Len(entries) : entries[k].key = key
    ELSE 0

\* the grouping loop keyed by the location alone, whatever failure.each says
RECURSIVE groupFailures_byLocationAlone(_, _, _)
groupFailures_byLocationAlone(failures, i, acc) ==
    IF i > Len(failures) THEN acc
    ELSE LET failure == failures[i]
             pos == mapIndex(acc.grouped, failure.at)
         IN  IF pos = 0
             THEN groupFailures_byLocationAlone(failures, i + 1,
                    [acc EXCEPT !.grouped = Append(@, [key |-> failure.at, members |-> <<i>>])])
             ELSE groupFailures_byLocationAlone(failures, i + 1,
                    [acc EXCEPT !.grouped[pos].members = Append(@, i)])

\* the grouping loop with a new group put before the groups already there
RECURSIVE groupFailures_newestFirst(_, _, _)
groupFailures_newestFirst(failures, i, acc) ==
    IF i > Len(failures) THEN acc
    ELSE LET failure == failures[i]
             pos == mapIndex(acc.grouped, failure.at)
         IN  IF failure.each
             THEN IF pos = 0
                  THEN groupFailures_newestFirst(failures, i + 1,
                         [acc EXCEPT !.grouped = <<[key |-> failure.at, members |-> <<i>>]>> \o @])
                  ELSE groupFailures_newestFirst(failures, i + 1,
                         [acc EXCEPT !.grouped[pos].members = Append(@, i)])
             ELSE groupFailures_newestFirst(failures, i + 1, [acc EXCEPT !.regular = Append(@, i)])

\* the grouping loop of formatOutput (toon-reporter.ts:279-292); failures are
\* named by their index in the input; grouped keeps the Map's insertion order
RECURSIVE groupFailures(_, _, _)
groupFailures(failures, i, acc) ==
    IF i > Len(failures) THEN acc
    ELSE LET failure == failures[i]
             pos == mapIndex(acc.grouped, failure.at)
         IN  IF failure.each
             THEN IF pos = 0
                  THEN groupFailures(failures, i + 1,
                         [acc EXCEPT !.grouped = Append(@, [key |-> failure.at, members |-> <<i>>])])
                  ELSE groupFailures(failures, i + 1,
                         [acc EXCEPT !.grouped[pos].members = Append(@, i)])
             ELSE groupFailures(failures, i + 1, [acc EXCEPT !.regular = Append(@, i)])

\* useColor without the test of the color option
useColor_withoutOption ==
    /\ ~options.outputFile
    /\ ~options.capture
    /\ ~env.NO_COLOR
    /\ ~env.CI

\* useColor (toon-reporter.ts:259)
useColor ==
    /\ options.color
    /\ ~options.outputFile
    /\ ~options.capture
    /\ ~env.NO_COLOR
    /\ ~env.CI

\* the color codes in use: colors when useColor, empty strings otherwise
paint(color) == IF useColor THEN color ELSE ""

\* the block of one regular failure with an error line written also when
\* the record has no error
regularBlock_withPlaceholder(failures, i) ==
    LET failure == failures[i]
    IN  <<Line("item", "at", -1, <<>>, failure.at, 0, paint(yellow), useColor, i)>>
        \o (IF failure.expected # Undefined /\ failure.got # Undefined
            THEN <<Line("field", "expected", -1, <<>>, toonQuote(failure.expected), 1, "", FALSE, i),
                   Line("field", "got", -1, <<>>, toonQuote(failure.got), 1, "", FALSE, i)>>
            ELSE <<Line("field", "error", -1, <<>>, toonQuote(failure.error), 1, "", FALSE, i)>>)

\* the block of one regular failure (toon-reporter.ts:295-303)
regularBlock(failures, i) ==
    LET failure == failures[i]
    IN  <<Line("item", "at", -1, <<>>, failure.at, 0, paint(yellow), useColor, i)>>
        \o (IF failure.expected # Undefined /\ failure.got # Undefined
            THEN <<Line("field", "expected", -1, <<>>, toonQuote(failure.expected), 1, "", FALSE, i),
                   Line("field", "got", -1, <<>>, toonQuote(failure.got), 1, "", FALSE, i)>>
            ELSE IF truthyStr(failure.error)
            THEN <<Line("field", "error", -1, <<>>, toonQuote(failure.error), 1, "", FALSE, i)>>
            ELSE <<>>)

\* the block of a parameter group with the field set taken from the group's
\* first failure alone
groupedBlock_byFirstMember(failures, groupedFailures) ==
    LET first == failures[groupedFailures[1]]
        hasExpectedGot == first.expected # Undefined /\ first.got # Undefined
    IN  <<Line("item", "at", -1, <<>>, first.at, 0, paint(yellow), useColor, groupedFailures[1])>>
        \o (IF hasExpectedGot
            THEN <<Line("header", "parameters", Len(groupedFailures), <<"expected", "got">>,
                        <<>>, 1, "", FALSE, 0)>>
                 \o [k \in 1..Len(groupedFailures) |->
                       Line("row", "", -1, <<>>,
                            toonQuote(failures[groupedFailures[k]].expected) \o <<",">>
                              \o toonQuote(failures[groupedFailures[k]].got),
                            2, "", FALSE, groupedFailures[k])]
            ELSE <<Line("header", "parameters", Len(groupedFailures), <<"error">>,
                        <<>>, 1, "", FALSE, 0)>>
                 \o Flatten([k \in 1..Len(groupedFailures) |->
                       IF truthyStr(failures[groupedFailures[k]].error)
                       THEN <<Line("row", "", -1, <<>>,
                                   toonQuote(failures[groupedFailures[k]].error),
                                   2, "", FALSE, groupedFailures[k])>>
                       ELSE <<>>]))

\* the block of one parameter group (toon-reporter.ts:306-327)
groupedBlock(failures, groupedFailures) ==
    LET first == failures[groupedFailures[1]]
        hasExpectedGot == \A k \in 1..Len(groupedFailures) :
                              /\ failures[groupedFailures[k]].expected # Undefined
                              /\ failures[groupedFailures[k]].got # Undefined
    IN  <<Line("item", "at", -1, <<>>, first.at, 0, paint(yellow), useColor, groupedFailures[1])>>
        \o (IF hasExpectedGot
            THEN <<Line("header", "parameters", Len(groupedFailures), <<"expected", "got">>,
                        <<>>, 1, "", FALSE, 0)>>
                 \o [k \in 1..Len(groupedFailures) |->
                       Line("row", "", -1, <<>>,
                            toonQuote(failures[groupedFailures[k]].expected) \o <<",">>
                              \o toonQuote(failures[groupedFailures[k]].got),
                            2, "", FALSE, groupedFailures[k])]
            ELSE <<Line("header", "parameters", Len(groupedFailures), <<"error">>,
                        <<>>, 1, "", FALSE, 0)>>
                 \o Flatten([k \in 1..Len(groupedFailures) |->
                       IF truthyStr(failures[groupedFailures[k]].error)
                       THEN <<Line("row", "", -1, <<>>,
                                   toonQuote(failures[groupedFailures[k]].error),
                                   2, "", FALSE, groupedFailures[k])>>
                       ELSE <<>>]))

\* the failing section with a header that counts the blocks under it
failingSection_countsBlocks(failures) ==
    IF Len(failures) > 0
    THEN LET g == groupFailures(failures, 1, [grouped |-> <<>>, regular |-> <<>>])
         IN  <<Line("header", "failing", Len(g.regular) + Len(g.grouped), <<>>, <<>>, 0,
                    paint(red), FALSE, 0)>>
             \o Flatten([k \in 1..Len(g.regular) |-> regularBlock(failures, g.regular[k])])
             \o Flatten([k \in 1..Len(g.grouped) |-> groupedBlock(failures, g.grouped[k].members)])
    ELSE <<>>

\* the failing section with the parameter groups written before the regular
\* failures
failingSection_groupsFirst(failures) ==
    IF Len(failures) > 0
    THEN LET g == groupFailures(failures, 1, [grouped |-> <<>>, regular |-> <<>>])
         IN  <<Line("header", "failing", Len(failures), <<>>, <<>>, 0, paint(red), FALSE, 0)>>
             \o Flatten([k \in 1..Len(g.grouped) |-> groupedBlock(failures, g.grouped[k].members)])
             \o Flatten([k \in 1..Len(g.regular) |-> regularBlock(failures, g.regular[k])])
    ELSE <<>>

\* the failing section (toon-reporter.ts:275-328)
failingSection(failures) ==
    IF Len(failures) > 0
    THEN LET g == groupFailures(failures, 1, [grouped |-> <<>>, regular |-> <<>>])
         IN  <<Line("header", "failing", Len(failures), <<>>, <<>>, 0, paint(red), FALSE, 0)>>
             \o Flatten([k \in 1..Len(g.regular) |-> regularBlock(failures, g.regular[k])])
             \o Flatten([k \in 1..Len(g.grouped) |-> groupedBlock(failures, g.grouped[k].members)])
    ELSE <<>>

\* a todo or skipped table (toon-reporter.ts:330-346)
nameTable(key, records, color, locColor) ==
    IF Len(records) > 0
    THEN <<Line("header", key, Len(records), <<"at", "name">>, <<>>, 0, paint(color), FALSE, 0)>>
         \o [k \in 1..Len(records) |->
               Line("row", "", -1, <<>>,
                    records[k].at \o <<",">> \o toonQuote(records[k].name),
                    1, paint(color), useColor, k)]
    ELSE <<>>

\* ToonReporter.formatOutput (toon-reporter.ts:258-349)
formatOutput(passing, failures, skipped, todo) ==
    <<Line("scalar", "passing", passing, <<>>, NumStr(passing), 0, paint(green), FALSE, 0)>>
    \o failingSection(failures)
    \o nameTable("todo", todo, cyan, yellow)
    \o nameTable("skipped", skipped, gray, gray)

\* ToonReporter.onTestRunEnd up to the call of writeReport (toon-reporter.ts:136-219)
reportOf(tests) ==
    LET failedTests  == testsWhere(tests, "state", "fail", 1)
        passedCount  == Len(testsWhere(tests, "state", "pass", 1))
        skippedTests == testsWhere(tests, "mode", "skip", 1)
        todoTests    == testsWhere(tests, "mode", "todo", 1)
    IN  [passing  |-> passedCount,
         failures |-> [k \in 1..Len(failedTests) |-> buildFailure(tests[failedTests[k]])],
         skipped  |-> [k \in 1..Len(skippedTests) |-> buildSkipped(tests[skippedTests[k]])],
         todo     |-> [k \in 1..Len(todoTests) |-> buildSkipped(tests[todoTests[k]])]]

---------------------------------------------------------------------------
(* The Vitest reporter, second definition (src/src/toon-reporter.ts:421-595) *)

\* JSON.stringify of a string
RECURSIVE jsonEscape(_)
jsonEscape(s) ==
    IF s = <<>> THEN <<>>
    ELSE (CASE Head(s) = DQ  -> <<BSL, DQ>>
            [] Head(s) = BSL -> <<BSL, BSL>>
            [] Head(s) = LF  -> <<BSL, "n">>
            [] Head(s) = CR  -> <<BSL, "r">>
            [] Head(s) = TAB -> <<BSL, "t">>
            [] OTHER -> <<Head(s)>>) \o jsonEscape(Tail(s))

jsonStringify(s) == <<DQ>> \o jsonEscape(s) \o <<DQ>>

\* one element of the failures array (toon-reporter.ts:493-511); stack paths
\* lie under rootDir
buildFailure2(t) ==
    LET error == t.error
        parsed == error.has /\ error.stack.has
        hasEG  == error.has /\ error.eg.has
        location == <<".", "/">> \o error.stack.relPath \o <<":">> \o NumStr(error.stack.line)
                      \o <<":">> \o NumStr(error.stack.column)
        line   == IF t.loc.has /\ truthyNum(t.loc.line) THEN t.loc.line ELSE 0
        column == IF t.loc.has /\ truthyNum(t.loc.column) THEN t.loc.column ELSE 0
    IN  [at       |-> IF parsed THEN location
                      ELSE <<".", "/">> \o t.file \o <<":">> \o NumStr(line) \o <<":">> \o NumStr(column),
         line     |-> line,
         column   |-> column,
         each     |-> FALSE,
         expected |-> IF hasEG THEN error.eg.expected ELSE Undefined,
         got      |-> IF hasEG THEN error.eg.got ELSE Undefined,
         error    |-> IF ~hasEG /\ error.has
                      THEN (IF error.message # <<>> /\ error.message # Undefined
                            THEN error.message ELSE objectString)
                      ELSE Undefined]

\* one element of the skipped / todo arrays (toon-reporter.ts:514-525)
buildSkipped2(t) ==
    [at |-> <<".", "/">> \o t.file
              \o (IF t.loc.has
                  THEN <<":">> \o NumStr(t.loc.line) \o <<":">> \o NumStr(t.loc.column)
                  ELSE <<>>),
     line |-> NoNumber, column |-> NoNumber, name |-> t.name]

reportOf2(tests) ==
    LET failedTests  == testsWhere(tests, "state", "fail", 1)
        passedCount  == Len(testsWhere(tests, "state", "pass", 1))
        skippedTests == testsWhere(tests, "mode", "skip", 1)
        todoTests    == testsWhere(tests, "mode", "todo", 1)
    IN  [passing  |-> passedCount,
         failures |-> [k \in 1..Len(failedTests) |-> buildFailure2(tests[failedTests[k]])],
         skipped  |-> [k \in 1..Len(skippedTests) |-> buildSkipped2(tests[skippedTests[k]])],
         todo     |-> [k \in 1..Len(todoTests) |-> buildSkipped2(tests[todoTests[k]])]]

\* a failure's block (toon-reporter.ts:541-549)
failureBlock2(failures, i) ==
    LET failure == failures[i]
    IN  <<Line("item", "at", -1, <<>>, failure.at, 1, paint(yellow), FALSE, i)>>
        \o (IF failure.expected # Undefined /\ failure.got # Undefined
            THEN <<Line("field", "expected", -1, <<>>, jsonStringify(failure.expected), 2, "", FALSE, i),
                   Line("field", "got", -1, <<>>, jsonStringify(failure.got), 2, "", FALSE, i)>>
            ELSE IF truthyStr(failure.error)
            THEN <<Line("field", "error", -1, <<>>, failure.error, 2, "", FALSE, i)>>
            ELSE <<>>)

\* a skipped or todo list (toon-reporter.ts:552-566)
nameList2(key, records, color, itemColor, nameColor) ==
    IF Len(records) > 0
    THEN <<Line("header", key, Len(records), <<>>, <<>>, 0, paint(color), FALSE, 0)>>
         \o Flatten([k \in 1..Len(records) |->
              <<Line("item", "at", -1, <<>>, records[k].at, 1, paint(itemColor), FALSE, k),
                Line("field", "name", -1, <<>>, records[k].name, 2, paint(nameColor), FALSE, k)>>])
    ELSE <<>>

\* ToonReporter.formatOutput, second definition (toon-reporter.ts:531-569)
formatOutput2(passing, failures, skipped, todo) ==
    <<Line("scalar", "passing", passing, <<>>, NumStr(passing), 0, paint(green), FALSE, 0)>>
    \o (IF Len(failures) > 0
        THEN <<Line("header", "failing", Len(failures), <<>>, <<>>, 0, paint(red), FALSE, 0)>>
             \o Flatten([k \in 1..Len(failures) |-> failureBlock2(failures, k)])
        ELSE <<>>)
    \o nameList2("skipped", skipped, gray, gray, gray)
    \o nameList2("todo", todo, cyan, yellow, "")

---------------------------------------------------------------------------
(* writeReport of the Vitest reporter (toon-reporter.ts:351-374, 571-594) *)

\* what the file system does when writeReport reaches it
FsOutcomes == {"ok", "mkdir fails", "writeFile fails"}

Delivery(sink, what, doc) == [sink |-> sink, what |-> what, doc |-> doc]

\* the "TOON report written to <file>" message
writtenNotice == <<"TOON report written to ", "reportFile">>

\* writeReport catching the error of the file system and logging the report
\* instead
writeReport_divertsOnFailure(report, fs, ctxOutputFile) ==
    IF options.capture
    THEN [sinks |-> <<Delivery("capture", "report", report)>>, thrown |-> "none"]
    ELSE IF (options.outputFile \/ ctxOutputFile) /\ fs = "ok"
    THEN [sinks |-> <<Delivery("file", "report", report),
                      Delivery("stdout", "notice", writtenNotice)>>,
          thrown |-> "none"]
    ELSE [sinks |-> <<Delivery("stdout", "report", report)>>, thrown |-> "none"]

\* returns what was delivered and the error thrown; fs is the file system's
\* behaviour, ctxOutputFile whether getOutputFile(this.ctx.config, 'toon')
\* names a file
writeReport(report, fs, ctxOutputFile) ==
    IF options.capture
    THEN [sinks |-> <<Delivery("capture", "report", report)>>, thrown |-> "none"]
    ELSE IF options.outputFile \/ ctxOutputFile
    THEN CASE fs = "mkdir fails" -> [sinks |-> <<>>, thrown |-> "mkdir"]
           [] fs = "writeFile fails" -> [sinks |-> <<>>, thrown |-> "writeFile"]
           [] OTHER -> [sinks |-> <<Delivery("file", "report", report),
                                   Delivery("stdout", "notice", writtenNotice)>>,
                        thrown |-> "none"]
    ELSE [sinks |-> <<Delivery("stdout", "report", report)>>, thrown |-> "none"]

---------------------------------------------------------------------------
(* Inputs of the Vitest reporter *)

MaxTests == 3

NoLoc   == [has |-> FALSE, line |-> NoNumber, column |-> NoNumber]
NoStack == [has |-> FALSE, relPath |-> <<>>, line |-> NoNumber, column |-> NoNumber]
NoEG    == [has |-> FALSE, expected |-> Undefined, got |-> Undefined]
NoError == [has |-> FALSE, stack |-> NoStack, eg |-> NoEG, name |-> Undefined, message |-> Undefined]

Loc(line, column) == [has |-> TRUE, line |-> line, column |-> column]
Assertion(expected, got) ==
    [has |-> TRUE, stack |-> NoStack, eg |-> [has |-> TRUE, expected |-> expected, got |-> got],
     name |-> <<"A", "s", "s", "e", "r", "t", "i", "o", "n", "E", "r", "r", "o", "r">>,
     message |-> <<"e", "x", "p", "e", "c", "t", "e", "d">>]
Thrown(name, message, stack) ==
    [has |-> TRUE, stack |-> stack, eg |-> NoEG, name |-> name, message |-> message]

VTest(mode, state, each, file, name, loc, error) ==
    [mode |-> mode, state |-> state, each |-> each, file |-> file, name |-> name,
     loc |-> loc, error |-> error]

VitestTests ==
    { VTest("run",  "pass", FALSE, <<"a">>, <<"p">>, NoLoc, NoError),
      VTest("skip", "skip", FALSE, <<"a">>, <<"a", ",", "b">>, Loc(2, 0), NoError),
      \* a file whose name holds a comma
      VTest("todo", "none", FALSE, <<"b", ",", "c">>, <<"1">>, NoLoc, NoError),
      \* parameterized (each) failures: two at one location, one elsewhere
      VTest("run", "fail", TRUE, <<"a">>, <<"e">>, Loc(1, 2), Assertion(<<"7">>, <<"6">>)),
      VTest("run", "fail", TRUE, <<"a">>, <<"e">>, Loc(3, 1), Assertion(<<"1">>, <<"2">>)),
      VTest("run", "fail", TRUE, <<"a">>, <<"e">>, Loc(1, 2),
            Thrown(<<"T", "y", "p", "e", "E", "r", "r", "o", "r">>, <<"b", "o", "o", "m">>, NoStack)),
      VTest("run", "fail", TRUE, <<"a">>, <<"e">>, Loc(1, 2), NoError),
      \* plain failures: one at the location of the parameterized ones
      VTest("run", "fail", FALSE, <<"a">>, <<"f">>, Loc(1, 2), Assertion(<<"t", "r", "u", "e">>, <<"x">>)),
      VTest("run", "fail", FALSE, <<"a">>, <<"g">>, NoLoc,
            Thrown(name_Error, <<"a", ",", "b">>,
                   [has |-> TRUE, relPath |-> <<"b">>, line |-> 4, column |-> 5])),
      VTest("run", "fail", FALSE, <<"c">>, <<"h">>, NoLoc, NoError) }

RECURSIVE SeqsUpTo(_, _)
SeqsUpTo(S, k) ==
    IF k = 0 THEN {<<>>}
    ELSE LET shorter == SeqsUpTo(S, k - 1)
         IN  shorter \cup {Append(s, x) : s \in {y \in shorter : Len(y) = k - 1}, x \in S}

VitestSuites == SeqsUpTo(VitestTests, MaxTests)

Opt(color, outputFile, capture, timing) ==
    [color |-> color, outputFile |-> outputFile, capture |-> capture, timing |-> timing]
Env(noColor, ci, outputFile) == [NO_COLOR |-> noColor, CI |-> ci, outputFile |-> outputFile]

\* constructor options and surroundings, as pairs: the setups under which the
\* content of the report is explored
VitestSetups ==
    { <<Opt(FALSE, FALSE, TRUE, FALSE), Env(FALSE, FALSE, FALSE)>>,
      <<Opt(TRUE, FALSE, FALSE, FALSE), Env(FALSE, FALSE, FALSE)>> }

\* the setups under which the delivery of the report is explored
VitestIOSetups ==
    { <<Opt(c, f, FALSE, FALSE), Env(FALSE, FALSE, g)>> : c \in BOOLEAN, f \in BOOLEAN, g \in BOOLEAN }
    \cup { <<Opt(c, f, TRUE, FALSE), Env(FALSE, FALSE, FALSE)>> : c \in BOOLEAN, f \in BOOLEAN }
    \cup { <<Opt(TRUE, FALSE, FALSE, FALSE), Env(TRUE, FALSE, FALSE)>>,
           <<Opt(TRUE, FALSE, FALSE, FALSE), Env(FALSE, TRUE, FALSE)>> }

NoCtx    == [set |-> FALSE, outputFile |-> FALSE, testNamePattern |-> FALSE]
NoConfig == [set |-> FALSE, grep |-> FALSE]
NoResult == [status |-> "none", duration |-> 0]

---------------------------------------------------------------------------
(* The Vitest reporter as a state machine *)

InitCommon ==
    /\ pc = "new"
    /\ ctx = NoCtx
    /\ config = NoConfig
    /\ suite = <<>>
    /\ testsDiscovered = 0
    /\ didBegin = FALSE
    /\ result = NoResult
    /\ calls = 0
    /\ sinks = <<>>
    /\ thrown = "none"
    /\ value = <<>>
    /\ quoted = <<>>

InitVitest ==
    /\ impl \in {"vitest", "vitest2"}
    /\ \E setup \in VitestSetups : options = setup[1] /\ env = setup[2]
    /\ InitCommon

InitVitestIO ==
    /\ impl \in {"vitest", "vitest2"}
    /\ \E setup \in VitestIOSetups : options = setup[1] /\ env = setup[2]
    /\ InitCommon

\* ToonReporter.onInit(ctx); ctx.outputFile: getOutputFile(ctx.config, 'toon')
\* names a file; ctx.testNamePattern: ctx.config.testNamePattern is set (the
\* run was started with --testNamePattern or -t), which the reporter never reads
onInit ==
    /\ impl \in {"vitest", "vitest2"}
    /\ pc = "new"
    /\ \E pattern \in BOOLEAN :
         ctx' = [set |-> TRUE, outputFile |-> env.outputFile, testNamePattern |-> pattern]
    /\ pc' = "begun"
    /\ UNCHANGED <<options, env, config, suite, testsDiscovered, didBegin, result, impl,
                   calls, sinks, thrown, value, quoted>>

\* ToonReporter.onTestRunEnd(testModules, ...) of either definition, for the
\* tests of one of the given suites and one of the given file system outcomes
onTestRunEnd(suites, outcomes) ==
    /\ impl \in {"vitest", "vitest2"}
    /\ pc = "begun"
    /\ \E tests \in suites, fs \in outcomes :
         LET r == IF impl = "vitest" THEN reportOf(tests) ELSE reportOf2(tests)
             output == IF impl = "vitest"
                       THEN formatOutput(r.passing, r.failures, r.skipped, r.todo)
                       ELSE formatOutput2(r.passing, r.failures, r.skipped, r.todo)
             w == writeReport(output, fs, ctx.outputFile)
         IN  /\ suite' = tests
             /\ calls' = calls + 1
             /\ sinks' = sinks \o w.sinks
             /\ thrown' = w.thrown
    /\ pc' = "ended"
    /\ UNCHANGED <<options, env, ctx, config, testsDiscovered, didBegin, result, impl,
                   value, quoted>>

NextVitest ==
    \/ onInit
    \/ onTestRunEnd(VitestSuites, {"ok"})

SpecVitest == InitVitest /\ [][NextVitest]_vars

NextVitestIO ==
    \/ onInit
    \/ onTestRunEnd(SeqsUpTo(VitestTests, 1), FsOutcomes)

SpecVitestIO == InitVitestIO /\ [][NextVitestIO]_vars

---------------------------------------------------------------------------
(* The Playwright reporter (src/src/toon-playwright-reporter.ts:216-519) *)

(* A TestCase:                                                             *)
(*   results     test.results: a sequence of [status, error, duration],    *)
(*               error being errors[0]: [has, loc, eg, message] with loc   *)
(*               error.location and eg what parseExpectedGot finds in the  *)
(*               message                                                   *)
(*   fixme       test.annotations holds an annotation of type 'fixme'      *)
(*   location    test.location: [file, line, column], file relative to     *)
(*               process.cwd()                                             *)
(*   title       test.title                                                *)

\* formatDuration with the milliseconds written whether or not they are zero
formatDuration_alwaysMs(ms) ==
    LET h == ms \div 3600000
        m == (ms % 3600000) \div 60000
        sec == (ms % 60000) \div 1000
        remaining == ms % 1000
        p1 == IF h # 0 THEN NumStr(h) \o <<"h">> ELSE <<>>
        p2 == IF m # 0 THEN NumStr(m) \o <<"m">> ELSE <<>>
        p3 == IF sec # 0 THEN NumStr(sec) \o <<"s">> ELSE <<>>
    IN  p1 \o p2 \o p3 \o NumStr(remaining) \o <<"ms">>

\* formatDuration (toon-playwright-reporter.ts:270-282), ms an integer
formatDuration(ms) ==
    LET h == ms \div 3600000
        m == (ms % 3600000) \div 60000
        sec == (ms % 60000) \div 1000
        remaining == ms % 1000
        p1 == IF h # 0 THEN NumStr(h) \o <<"h">> ELSE <<>>
        p2 == IF m # 0 THEN NumStr(m) \o <<"m">> ELSE <<>>
        p3 == IF sec # 0 THEN NumStr(sec) \o <<"s">> ELSE <<>>
        parts == p1 \o p2 \o p3
    IN  IF remaining # 0 \/ parts = <<>> THEN parts \o NumStr(remaining) \o <<"ms">> ELSE parts

\* ToonPlaywrightReporter.formatLocation (toon-playwright-reporter.ts:302-305)
pw_formatLocation(relPath, line, column) ==
    IF truthyNum(line)
    THEN relPath \o <<":">> \o NumStr(line) \o <<":">>
                 \o NumStr(IF truthyNum(column) THEN column ELSE 0)
    ELSE relPath

lastResult(test) == test.results[Len(test.results)]

\* isFlaky (toon-playwright-reporter.ts:388-391)
isFlaky(test) ==
    /\ lastResult(test).status = "passed"
    /\ Len(test.results) > 1
    /\ \E k \in 1..Len(test.results) : test.results[k].status = "failed"

\* the classification that files an interrupted test nowhere
classify_withoutInterrupted(test) ==
    IF Len(test.results) = 0 THEN "none"
    ELSE LET status == lastResult(test).status
         IN  IF isFlaky(test) THEN "flaky"
             ELSE IF status = "passed" THEN "passed"
             ELSE IF status \in {"failed", "timedOut"} THEN "failed"
             ELSE IF status = "skipped" THEN (IF test.fixme THEN "todo" ELSE "skipped")
             ELSE "none"

\* the classification with the fixme annotation looked at before the status
classify_fixmeFirst(test) ==
    IF Len(test.results) = 0 THEN "none"
    ELSE LET status == lastResult(test).status
         IN  IF test.fixme THEN "todo"
             ELSE IF isFlaky(test) THEN "flaky"
             ELSE IF status = "passed" THEN "passed"
             ELSE IF status \in {"failed", "timedOut", "interrupted"} THEN "failed"
             ELSE IF status = "skipped" THEN "skipped"
             ELSE "none"

\* the bucket the classification loop pushes a test to
\* (toon-playwright-reporter.ts:377-406); "none" when it pushes it nowhere
classify(test) ==
    IF Len(test.results) = 0 THEN "none"
    ELSE LET status == lastResult(test).status
         IN  IF isFlaky(test) THEN "flaky"
             ELSE IF status = "passed" THEN "passed"
             ELSE IF status \in {"failed", "timedOut", "interrupted"} THEN "failed"
             ELSE IF status = "skipped" THEN (IF test.fixme THEN "todo" ELSE "skipped")
             ELSE "none"

\* the indices of the tests pushed to a bucket, in the order of allTests
RECURSIVE bucket(_, _, _)
bucket(allTests, b, i) ==
    IF i > Len(allTests) THEN <<>>
    ELSE (IF classify(allTests[i]) = b THEN <<i>> ELSE <<>>) \o bucket(allTests, b, i + 1)

\* testsWithResults (toon-playwright-reporter.ts:375-380)
testsWithResults(allTests) == Cardinality({i \in 1..Len(allTests) : Len(allTests[i].results) > 0})

\* an object handed to encode: its keys in insertion order and their values
\* (a number as its decimal text, undefined as Undefined)
Obj(keys, vals) == [keys |-> keys, vals |-> vals]

\* one element of the failures array (toon-playwright-reporter.ts:423-442)
pw_failure(test) ==
    LET error == lastResult(test).error
        loc == IF error.has /\ error.loc.has THEN error.loc ELSE test.location
        at == pw_formatLocation(loc.file, loc.line, loc.column)
    IN  IF error.has
        THEN IF error.eg.has
             THEN Obj(<<"at", "expected", "got">>, <<at, error.eg.expected, error.eg.got>>)
             ELSE Obj(<<"at", "error">>, <<at, error.message>>)
        ELSE Obj(<<"at">>, <<at>>)

pw_at(test) == pw_formatLocation(test.location.file, test.location.line, test.location.column)

mapToSkipped(test) == Obj(<<"at", "name">>, <<pw_at(test), test.title>>)

mapToFlaky(test) ==
    Obj(<<"at", "name", "retries">>, <<pw_at(test), test.title, NumStr(Len(test.results) - 1)>>)

\* the timing record without its duration
mapToTiming_withoutMs(test) == Obj(<<"at", "name">>, <<pw_at(test), test.title>>)

mapToTiming(test) ==
    Obj(<<"at", "name", "ms">>, <<pw_at(test), test.title, NumStr(lastResult(test).duration)>>)

\* a key of the report object with its value: a number, a string, or an
\* array of objects
NumEntry(key, n) == [key |-> key, type |-> "number", n |-> n, text |-> NumStr(n), items |-> <<>>]
StrEntry(key, text) == [key |-> key, type |-> "string", n |-> -1, text |-> text, items |-> <<>>]
ArrEntry(key, items) == [key |-> key, type |-> "array", n |-> -1, text |-> <<>>, items |-> items]

KeySet(obj) == {obj.keys[k] : k \in 1..Len(obj.keys)}

\* encode's test for the tabular form: every object has the keys of the first
isTabular(items) ==
    /\ Len(items) > 0
    /\ \A k \in 1..Len(items) :
          /\ Len(items[k].keys) = Len(items[1].keys)
          /\ KeySet(items[k]) = KeySet(items[1])

\* a row of a table: the values in the header's field order
tableRow(fields, obj, k) ==
    [Line("row", "", -1, <<>>, <<>>, 1, "", FALSE, k)
       EXCEPT !.vals = [f \in 1..Len(fields) |->
                          obj.vals[CHOOSE j \in 1..Len(obj.keys) : obj.keys[j] = fields[f]]]]

\* a list item: "- key: value" for the first key, one line per further key
listItem(obj, k) ==
    [j \in 1..Len(obj.keys) |->
       [Line(IF j = 1 THEN "item" ELSE "field", obj.keys[j], -1, <<>>, <<>>,
             IF j = 1 THEN 1 ELSE 2, "", FALSE, k)
          EXCEPT !.vals = <<obj.vals[j]>>]]

\* encode of one key of the report object (@toon-format/toon, called at
\* toon-playwright-reporter.ts:346, 366, 417, 479)
encodeEntry(e) ==
    IF e.type # "array"
    THEN <<Line("scalar", e.key, e.n, <<>>, e.text, 0, "", FALSE, 0)>>
    ELSE IF isTabular(e.items)
    THEN <<Line("header", e.key, Len(e.items), e.items[1].keys, <<>>, 0, "", FALSE, 0)>>
         \o [k \in 1..Len(e.items) |-> tableRow(e.items[1].keys, e.items[k], k)]
    ELSE <<Line("header", e.key, Len(e.items), <<>>, <<>>, 0, "", FALSE, 0)>>
         \o Flatten([k \in 1..Len(e.items) |-> listItem(e.items[k], k)])

\* encode(report): the keys in insertion order
encode(report) == Flatten([k \in 1..Len(report) |-> encodeEntry(report[k])])

\* output.replace(/^(passing: .+)$/m, '$1 (filtered)'): the first line that
\* reads "passing: " followed by at least one character
RECURSIVE markFiltered(_)
markFiltered(doc) ==
    IF doc = <<>> THEN <<>>
    ELSE IF Head(doc).kind = "scalar" /\ Head(doc).key = "passing" /\ Head(doc).text # <<>>
    THEN <<[Head(doc) EXCEPT !.text = @ \o <<" (filtered)">>]>> \o Tail(doc)
    ELSE <<Head(doc)>> \o markFiltered(Tail(doc))

\* the report object with the skipped key set whether or not a test was skipped
pw_report_alwaysSkipped(allTests, res) ==
    LET passedTests  == bucket(allTests, "passed", 1)
        failedTests  == bucket(allTests, "failed", 1)
        skippedTests == bucket(allTests, "skipped", 1)
        todoTests    == bucket(allTests, "todo", 1)
        flakyTests   == bucket(allTests, "flaky", 1)
        failures == [k \in 1..Len(failedTests) |-> pw_failure(allTests[failedTests[k]])]
    IN  (IF options.timing
         THEN <<StrEntry("duration", formatDuration(res.duration)),
                ArrEntry("passing", [k \in 1..Len(passedTests) |-> mapToTiming(allTests[passedTests[k]])])>>
         ELSE <<NumEntry("passing", Len(passedTests))>>)
        \o (IF Len(flakyTests) > 0
            THEN <<ArrEntry("flaky", [k \in 1..Len(flakyTests) |-> mapToFlaky(allTests[flakyTests[k]])])>>
            ELSE <<>>)
        \o (IF Len(failures) > 0 THEN <<ArrEntry("failing", failures)>> ELSE <<>>)
        \o (IF Len(todoTests) > 0
            THEN <<ArrEntry("todo", [k \in 1..Len(todoTests) |-> mapToSkipped(allTests[todoTests[k]])])>>
            ELSE <<>>)
        \o <<ArrEntry("skipped", [k \in 1..Len(skippedTests) |-> mapToSkipped(allTests[skippedTests[k]])])>>

\* the report object built at toon-playwright-reporter.ts:421-477
pw_report(allTests, res) ==
    LET passedTests  == bucket(allTests, "passed", 1)
        failedTests  == bucket(allTests, "failed", 1)
        skippedTests == bucket(allTests, "skipped", 1)
        todoTests    == bucket(allTests, "todo", 1)
        flakyTests   == bucket(allTests, "flaky", 1)
        failures == [k \in 1..Len(failedTests) |-> pw_failure(allTests[failedTests[k]])]
    IN  (IF options.timing
         THEN <<StrEntry("duration", formatDuration(res.duration)),
                ArrEntry("passing", [k \in 1..Len(passedTests) |-> mapToTiming(allTests[passedTests[k]])])>>
         ELSE <<NumEntry("passing", Len(passedTests))>>)
        \o (IF Len(flakyTests) > 0
            THEN <<ArrEntry("flaky", [k \in 1..Len(flakyTests) |-> mapToFlaky(allTests[flakyTests[k]])])>>
            ELSE <<>>)
        \o (IF Len(failures) > 0 THEN <<ArrEntry("failing", failures)>> ELSE <<>>)
        \o (IF Len(todoTests) > 0
            THEN <<ArrEntry("todo", [k \in 1..Len(todoTests) |-> mapToSkipped(allTests[todoTests[k]])])>>
            ELSE <<>>)
        \o (IF Len(skippedTests) > 0
            THEN <<ArrEntry("skipped", [k \in 1..Len(skippedTests) |-> mapToSkipped(allTests[skippedTests[k]])])>>
            ELSE <<>>)

\* the message with the status of the run looked at before the tests
\* discovered
emptySuiteMessage_statusFirst(res) ==
    IF res.status = "interrupted" THEN <<"Test run was interrupted">>
    ELSE IF res.status = "timedout" THEN <<"Test run timed out">>
    ELSE IF testsDiscovered > 0
    THEN NumStr(testsDiscovered) \o <<" test(s) discovered but not executed">>
    ELSE <<"No test files found">>

\* the error message for an empty suite (toon-playwright-reporter.ts:353-364)
emptySuiteMessage(res) ==
    IF testsDiscovered > 0
    THEN NumStr(testsDiscovered) \o <<" test(s) discovered but not executed">>
    ELSE IF res.status = "interrupted" THEN <<"Test run was interrupted">>
    ELSE IF res.status = "timedout" THEN <<"Test run timed out">>
    ELSE <<"No test files found">>

\* the message without the suffix that names the status of the run
noneExecutedMessage_withoutStatus(allTests, res) ==
    NumStr(Len(allTests)) \o <<" test(s) discovered but not executed">>

\* the message with the two suffixes taken for each other
noneExecutedMessage_swapped(allTests, res) ==
    NumStr(Len(allTests)) \o <<" test(s) discovered but not executed">>
    \o (IF res.status = "timedout" THEN <<" (interrupted)">>
        ELSE IF res.status = "interrupted" THEN <<" (timed out)">>
        ELSE <<>>)

\* the error message when no test has a result (toon-playwright-reporter.ts:409-415)
noneExecutedMessage(allTests, res) ==
    NumStr(Len(allTests)) \o <<" test(s) discovered but not executed">>
    \o (IF res.status = "timedout" THEN <<" (timed out)">>
        ELSE IF res.status = "interrupted" THEN <<" (interrupted)">>
        ELSE <<>>)

\* onEnd without the test for a suite none of whose tests has a result
pw_output_withoutResultCheck(res) ==
    IF ~didBegin
    THEN encode(<<StrEntry("error", <<"Test run failed before initialization">>)>>)
    ELSE IF Len(suite) = 0
    THEN encode(<<StrEntry("error", emptySuiteMessage(res))>>)
    ELSE IF config.grep
    THEN markFiltered(encode(pw_report(suite, res)))
    ELSE encode(pw_report(suite, res))

\* the text onEnd hands to writeReport (toon-playwright-reporter.ts:342-487)
pw_output(res) ==
    IF ~didBegin
    THEN encode(<<StrEntry("error", <<"Test run failed before initialization">>)>>)
    ELSE IF Len(suite) = 0
    THEN encode(<<StrEntry("error", emptySuiteMessage(res))>>)
    ELSE IF testsWithResults(suite) = 0
    THEN encode(<<StrEntry("error", noneExecutedMessage(suite, res))>>)
    ELSE IF config.grep
    THEN markFiltered(encode(pw_report(suite, res)))
    ELSE encode(pw_report(suite, res))

\* ToonPlaywrightReporter.writeReport (toon-playwright-reporter.ts:490-511):
\* what was delivered and the error thrown
pw_writeReport(report, fs) ==
    IF options.capture
    THEN [sinks |-> <<Delivery("capture", "report", report)>>, thrown |-> "none"]
    ELSE IF options.outputFile
    THEN \* resolve(this.config.rootDir, outputFile) reads a property of undefined
         IF ~config.set THEN [sinks |-> <<>>, thrown |-> "TypeError"]
         ELSE IF fs = "mkdir fails" THEN [sinks |-> <<>>, thrown |-> "mkdir"]
         ELSE IF fs = "writeFile fails" THEN [sinks |-> <<>>, thrown |-> "writeFile"]
         ELSE [sinks |-> <<Delivery("file", "report", report),
                           Delivery("stdout", "notice", writtenNotice)>>,
               thrown |-> "none"]
    ELSE [sinks |-> <<Delivery("stdout", "report", report)>>, thrown |-> "none"]

---------------------------------------------------------------------------
(* Inputs of the Playwright reporter *)

MaxSuite == 2

NoErrLoc == [has |-> FALSE, file |-> <<>>, line |-> NoNumber, column |-> NoNumber]
PwNoError == [has |-> FALSE, loc |-> NoErrLoc, eg |-> NoEG, message |-> Undefined]

PwError(loc, eg, message) == [has |-> TRUE, loc |-> loc, eg |-> eg, message |-> message]
Res(status, error, duration) == [status |-> status, error |-> error, duration |-> duration]

R_passed      == Res("passed", PwNoError, 5)
R_skipped     == Res("skipped", PwNoError, 0)
R_interrupted == Res("interrupted", PwNoError, 1)
R_timedOut    == Res("timedOut", PwError(NoErrLoc, NoEG, <<"s", "l", "o", "w">>), 9)
R_assert      == Res("failed",
                     PwError([has |-> TRUE, file |-> <<"a">>, line |-> 7, column |-> 0],
                             [has |-> TRUE, expected |-> <<"W">>, got |-> <<"H">>],
                             <<"E", "x", "p", "e", "c", "t", "e", "d">>), 3)
R_thrown      == Res("failed", PwError(NoErrLoc, NoEG, <<"b", "o", "o", "m">>), 2)
R_noMessage   == Res("failed", PwError(NoErrLoc, NoEG, Undefined), 2)
R_noError     == Res("failed", PwNoError, 2)

\* the results a test can hold: no result, one attempt, or a retry after an
\* attempt that failed or timed out
PwResults ==
    {<<>>}
    \cup {<<r>> : r \in {R_passed, R_skipped, R_interrupted, R_timedOut, R_assert, R_thrown,
                         R_noMessage, R_noError}}
    \cup {<<q, r>> : q \in {R_thrown, R_timedOut}, r \in {R_passed, R_thrown, R_skipped}}

PwTest(results, fixme, line, title) ==
    [results |-> results, fixme |-> fixme,
     location |-> [file |-> <<"a">>, line |-> line, column |-> 3], title |-> title]

\* tests as declared: plain ones and ones annotated fixme
PwDeclared == {PwTest(<<>>, FALSE, 5, <<"t">>), PwTest(<<>>, TRUE, 9, <<"a", ",", "b">>)}

\* the declared test with the results the runner gave it
withResults(test, results) == [test EXCEPT !.results = results]

PwFixmeResults == {<<>>, <<R_skipped>>, <<R_passed>>, <<R_thrown>>}

\* the results the runner can give a declared test
resultsFor(test) == IF test.fixme THEN PwFixmeResults ELSE PwResults

\* the suite onBegin saw, each test with results the runner gave it
RECURSIVE ranWith(_)
ranWith(begun) ==
    IF begun = <<>> THEN {<<>>}
    ELSE {<<withResults(Head(begun), rs)>> \o rest :
            rs \in resultsFor(Head(begun)), rest \in ranWith(Tail(begun))}

\* the suites the runner can leave behind for the suite onBegin saw: the same
\* tests with their results, or no test at all
ranSuites(begun) == {<<>>} \cup ranWith(begun)

PwStatuses == {"passed", "failed", "timedout", "interrupted"}
PwDurations == {0, 90052}
PwResultInputs == {[status |-> st, duration |-> d] : st \in PwStatuses, d \in PwDurations}

\* the setups under which the content of the report is explored
PwSetups == {Opt(FALSE, FALSE, TRUE, t) : t \in BOOLEAN}

\* the setups under which the delivery of the report is explored
PwIOSetups == {Opt(FALSE, f, c, FALSE) : f \in BOOLEAN, c \in BOOLEAN}

---------------------------------------------------------------------------
(* The Playwright reporter as a state machine *)

InitPlaywright ==
    /\ impl = "playwright"
    /\ options \in PwSetups
    /\ env = Env(FALSE, FALSE, FALSE)
    /\ InitCommon

InitPlaywrightIO ==
    /\ impl = "playwright"
    /\ options \in PwIOSetups
    /\ env = Env(FALSE, FALSE, FALSE)
    /\ InitCommon

\* ToonPlaywrightReporter.onBegin(config, suite); grep: config.grep || config.grepInvert
onBegin(grep, tests) ==
    /\ impl = "playwright"
    /\ pc = "new"
    /\ config' = [set |-> TRUE, grep |-> grep]
    /\ suite' = tests
    /\ testsDiscovered' = Len(tests)
    /\ didBegin' = TRUE
    /\ pc' = "begun"
    /\ UNCHANGED <<options, env, ctx, result, impl, calls, sinks, thrown, value, quoted>>

\* the runner between onBegin and onEnd: the tests of the suite get results
runTests ==
    /\ impl = "playwright"
    /\ pc = "begun"
    /\ \E tests \in ranSuites(suite) : suite' = tests
    /\ pc' = "ran"
    /\ UNCHANGED <<options, env, ctx, config, testsDiscovered, didBegin, result, impl,
                   calls, sinks, thrown, value, quoted>>

\* ToonPlaywrightReporter.onEnd(result)
onEnd(res, fs) ==
    /\ impl = "playwright"
    /\ pc \in {"new", "begun", "ran"}
    /\ LET w == pw_writeReport(pw_output(res), fs)
       IN  /\ calls' = calls + 1
           /\ sinks' = sinks \o w.sinks
           /\ thrown' = w.thrown
    /\ result' = res
    /\ pc' = "ended"
    /\ UNCHANGED <<options, env, ctx, config, suite, testsDiscovered, didBegin, impl,
                   value, quoted>>

NextPlaywright ==
    \/ \E grep \in BOOLEAN, tests \in SeqsUpTo(PwDeclared, MaxSuite) : onBegin(grep, tests)
    \/ runTests
    \/ \E res \in PwResultInputs : onEnd(res, "ok")

SpecPlaywright == InitPlaywright /\ [][NextPlaywright]_vars

NextPlaywrightIO ==
    \/ \E grep \in BOOLEAN, tests \in SeqsUpTo(PwDeclared, 1) : onBegin(grep, tests)
    \/ runTests
    \/ \E res \in PwResultInputs, fs \in FsOutcomes : onEnd(res, fs)

SpecPlaywrightIO == InitPlaywrightIO /\ [][NextPlaywrightIO]_vars


---------------------------------------------------------------------------
(* toonQuote on its own: the argument is drawn at the start, the step is the call *)

InitQuote ==
    /\ impl = "quote"
    /\ options = Opt(FALSE, FALSE, FALSE, FALSE)
    /\ env = Env(FALSE, FALSE, FALSE)
    /\ pc = "new"
    /\ ctx = NoCtx
    /\ config = NoConfig
    /\ suite = <<>>
    /\ testsDiscovered = 0
    /\ didBegin = FALSE
    /\ result = NoResult
    /\ calls = 0
    /\ sinks = <<>>
    /\ thrown = "none"
    /\ value \in QuoteInputs
    /\ quoted = <<>>

callToonQuote ==
    /\ impl = "quote"
    /\ pc = "new"
    /\ quoted' = toonQuote(value)
    /\ pc' = "ended"
    /\ UNCHANGED <<options, env, ctx, config, suite, testsDiscovered, didBegin, result, impl,
                   calls, sinks, thrown, value>>

NextQuote == callToonQuote

SpecQuote == InitQuote /\ [][NextQuote]_vars

---------------------------------------------------------------------------
(* formatDuration as a state machine: one call on the duration of a run *)

MaxHours == 2

\* result.duration: whole milliseconds, each of the four components at zero,
\* at one and at its largest value (the hours up to MaxHours)
DurationInputs ==
    {h * 3600000 + m * 60000 + sec * 1000 + r :
        h \in 0..MaxHours, m \in {0, 1, 59}, sec \in {0, 1, 59}, r \in {0, 1, 999}}

InitDuration ==
    /\ impl = "formatDuration"
    /\ options = Opt(FALSE, FALSE, FALSE, TRUE)
    /\ env = Env(FALSE, FALSE, FALSE)
    /\ pc = "new"
    /\ ctx = NoCtx
    /\ config = NoConfig
    /\ suite = <<>>
    /\ testsDiscovered = 0
    /\ didBegin = FALSE
    /\ \E ms \in DurationInputs : result = [status |-> "passed", duration |-> ms]
    /\ calls = 0
    /\ sinks = <<>>
    /\ thrown = "none"
    /\ value = <<>>
    /\ quoted = <<>>

\* report.duration = formatDuration(result.duration)
\* (toon-playwright-reporter.ts:468); the string returned is kept in value
callFormatDuration ==
    /\ impl = "formatDuration"
    /\ pc = "new"
    /\ value' = formatDuration(result.duration)
    /\ pc' = "ended"
    /\ UNCHANGED <<options, env, ctx, config, suite, testsDiscovered, didBegin, result, impl,
                   calls, sinks, thrown, quoted>>

NextDuration == callFormatDuration

SpecDuration == InitDuration /\ [][NextDuration]_vars

---------------------------------------------------------------------------
(* Two generations of the Vitest report: the reporter's onTestRunEnd is *)
(* called again for the same tests after the environment of the process  *)
(* has changed                                                           *)

\* options and environment of the first generation
RerunSetups ==
    { <<Opt(c, FALSE, cap, FALSE), Env(n, ci, FALSE)>> :
        c \in BOOLEAN, cap \in BOOLEAN, n \in BOOLEAN, ci \in BOOLEAN }

InitRerun ==
    /\ impl \in {"vitest", "vitest2"}
    /\ \E setup \in RerunSetups : options = setup[1] /\ env = setup[2]
    /\ InitCommon

\* process.env.NO_COLOR and process.env.CI, which formatOutput reads at each
\* call (toon-reporter.ts:259), are set or unset between two runs
setEnvironment ==
    /\ impl \in {"vitest", "vitest2"}
    /\ pc = "ended"
    /\ calls = 1
    /\ \E n \in BOOLEAN, ci \in BOOLEAN : env' = Env(n, ci, env.outputFile)
    /\ pc' = "begun"
    /\ UNCHANGED <<options, ctx, config, suite, testsDiscovered, didBegin, result, impl,
                   calls, sinks, thrown, value, quoted>>

NextRerun ==
    \/ onInit
    \/ calls = 0 /\ onTestRunEnd(SeqsUpTo(VitestTests, 1), {"ok"})
    \/ setEnvironment
    \/ calls = 1 /\ onTestRunEnd({suite}, {"ok"})

SpecRerun == InitRerun /\ [][NextRerun]_vars

---------------------------------------------------------------------------
(* The delivery of the report by either reporter *)

InitIO == InitVitestIO \/ InitPlaywrightIO

NextIO == NextVitestIO \/ NextPlaywrightIO

SpecIO == InitIO /\ [][NextIO]_vars

---------------------------------------------------------------------------
(* The whole program: a run is a run of one reporter or a call of toonQuote *)

Init == InitVitest \/ InitPlaywright \/ InitQuote

Next == NextVitest \/ NextPlaywright \/ NextQuote

Spec == Init /\ [][Next]_vars

---------------------------------------------------------------------------
(* Properties of toonQuote *)

\* /^-?\d+(\.\d+)?$/ read as an automaton: 0 start, 1 after the sign, 2 in
\* the integer digits, 3 after the point, 4 in the fraction digits, 5 dead
numStep(q, c) ==
    IF q = 0 /\ c = "-" THEN 1
    ELSE IF q \in {0, 1, 2} /\ c \in Digits THEN 2
    ELSE IF q = 2 /\ c = "." THEN 3
    ELSE IF q \in {3, 4} /\ c \in Digits THEN 4
    ELSE 5

RECURSIVE numRun(_, _)
numRun(q, s) == IF s = <<>> THEN q ELSE numRun(numStep(q, Head(s)), Tail(s))

isNumberText(s) == numRun(0, s) \in {2, 4}

SpecialChars == {",", LF, CR, TAB, BSL, DQ}

\* a value the specification lets through unquoted
plainValue(v) ==
    /\ \A i \in 1..Len(v) : v[i] \notin SpecialChars
    /\ v \notin {lit_true, lit_false, lit_null}
    /\ ~isNumberText(v)

\* C6: toonQuote returns its argument unchanged exactly when the argument holds
\* no comma, line feed, carriage return, tab, backslash or double quote, is
\* none of the literals true, false, null, and has not the shape of a number
\* (optional minus, digits, optionally a point and digits); in every other
\* case the returned value is wrapped in double quotes.
C6_QuotedExactlyWhenNeeded ==
    pc = "ended" =>
        /\ (quoted = value) <=> plainValue(value)
        /\ ~plainValue(value) =>
              /\ Len(quoted) >= 2
              /\ Head(quoted) = DQ
              /\ quoted[Len(quoted)] = DQ

C6_Witness ==
    /\ pc = "ended"
    /\ value = lit_null
    /\ quoted = <<DQ, "n", "u", "l", "l", DQ>>

\* the reading of an escaped body: a backslash and the character after it
\* stand for one character
RECURSIVE unescape(_)
unescape(s) ==
    IF s = <<>> THEN <<>>
    ELSE IF Head(s) = BSL /\ Len(s) >= 2
    THEN (IF s[2] = "n" THEN <<LF>>
          ELSE IF s[2] = "r" THEN <<CR>>
          ELSE IF s[2] = "t" THEN <<TAB>>
          ELSE <<s[2]>>) \o unescape(SubSeq(s, 3, Len(s)))
    ELSE <<Head(s)>> \o unescape(Tail(s))

\* a body without a raw line feed, carriage return or tab, without an
\* unescaped double quote, and whose every backslash opens an escape
RECURSIVE wellEscaped(_)
wellEscaped(s) ==
    IF s = <<>> THEN TRUE
    ELSE IF Head(s) = BSL
    THEN /\ Len(s) >= 2
         /\ s[2] \in {BSL, DQ, "n", "r", "t"}
         /\ wellEscaped(SubSeq(s, 3, Len(s)))
    ELSE /\ Head(s) \notin {LF, CR, TAB, DQ}
         /\ wellEscaped(Tail(s))

\* what one character of the value becomes in the body
escapeOf(c) ==
    IF c = BSL THEN <<BSL, BSL>>
    ELSE IF c = DQ THEN <<BSL, DQ>>
    ELSE IF c = LF THEN <<BSL, "n">>
    ELSE IF c = CR THEN <<BSL, "r">>
    ELSE IF c = TAB THEN <<BSL, "t">>
    ELSE <<c>>

quotedBody == SubSeq(quoted, 2, Len(quoted) - 1)

\* C7: when toonQuote quotes, the escaping is reversible (reading the body
\* back gives the argument), the body holds no raw line feed, carriage return
\* or tab and no unescaped double quote, and no character other than
\* backslash, double quote, line feed, carriage return and tab is altered.
C7_EscapingReversible ==
    (pc = "ended" /\ quoted # value) =>
        /\ unescape(quotedBody) = value
        /\ wellEscaped(quotedBody)
        /\ quotedBody = Flatten([i \in 1..Len(value) |-> escapeOf(value[i])])

C7_Witness ==
    /\ pc = "ended"
    /\ value = <<BSL, DQ, LF>>
    /\ quoted = <<DQ, BSL, BSL, BSL, DQ, BSL, "n", DQ>>

---------------------------------------------------------------------------
(* Properties of the written report *)

\* the run has ended and writeReport delivered a report
reportWritten == pc = "ended" /\ Len(sinks) > 0 /\ sinks[1].what = "report"

writtenReport == sinks[1].doc

\* the names of a document's sections, in the order of the document
RECURSIVE sectionsOf(_)
sectionsOf(doc) ==
    IF doc = <<>> THEN <<>>
    ELSE (IF Head(doc).kind \in {"scalar", "header"} /\ Head(doc).indent = 0
          THEN <<Head(doc).key>> ELSE <<>>) \o sectionsOf(Tail(doc))

sectionSet(doc) == {sectionsOf(doc)[k] : k \in 1..Len(sectionsOf(doc))}

\* the header or scalar line that opens a section of the document
sectionLine(doc, key) ==
    doc[CHOOSE k \in 1..Len(doc) :
          doc[k].kind \in {"scalar", "header"} /\ doc[k].indent = 0 /\ doc[k].key = key]

\* the end-of-run states the Playwright reporter treats as a collection-level
\* error
collectionError ==
    \/ ~didBegin
    \/ Len(suite) = 0
    \/ \A i \in 1..Len(suite) : Len(suite[i].results) = 0

abortedRun == result.status \in {"interrupted", "timedout"}

\* the category an error message names
categoryOf(text) ==
    IF text[Len(text)] \in {" (timed out)", "Test run timed out"} THEN "timedout"
    ELSE IF text[Len(text)] \in {" (interrupted)", "Test run was interrupted"} THEN "interrupted"
    ELSE "none"

\* C2 as stated: every run whose final status is interrupted or timedout is
\* reported as a single error section, whether or not tests produced results.
C2_AbortedRunIsErrorOnly ==
    (impl = "playwright" /\ pc = "ended" /\ abortedRun) =>
        /\ reportWritten
        /\ sectionsOf(writtenReport) = <<"error">>

\* C2, amended: a run whose final status is interrupted or timedout is
\* reported as a single error section exactly when onBegin never ran, the
\* suite is empty or no test has a result; the message names the interruption
\* or the timeout when onBegin ran and the suite is not one that lost the tests
\* it had at onBegin.  When a test has a result the normal report is written:
\* it has a passing section and no error section.
C2_AbortedRunErrorOnlyWithoutResults ==
    (impl = "playwright" /\ pc = "ended" /\ abortedRun) =>
        /\ reportWritten
        /\ (sectionsOf(writtenReport) = <<"error">>) <=> collectionError
        /\ collectionError /\ didBegin /\ (Len(suite) > 0 \/ testsDiscovered = 0) =>
              categoryOf(writtenReport[1].text) = result.status
        /\ ~collectionError =>
              /\ "error" \notin sectionSet(writtenReport)
              /\ "passing" \in sectionSet(writtenReport)

C2_Witness ==
    /\ impl = "playwright"
    /\ reportWritten
    /\ result.status = "interrupted"
    /\ Len(suite) = 2
    /\ Len(suite[1].results) = 1
    /\ Len(suite[2].results) = 0
    /\ lastResult(suite[1]).status = "interrupted"
    /\ sectionsOf(writtenReport) = <<"passing", "failing">>

\* the number of tests the run classified into a section
classifiedInto(key) ==
    IF impl = "playwright"
    THEN Len(bucket(suite, IF key = "failing" THEN "failed" ELSE key, 1))
    ELSE IF key = "failing" THEN Len(testsWhere(suite, "state", "fail", 1))
    ELSE IF key = "todo" THEN Len(testsWhere(suite, "mode", "todo", 1))
    ELSE IF key = "skipped" THEN Len(testsWhere(suite, "mode", "skip", 1))
    ELSE 0

errorReport == "error" \in sectionSet(writtenReport)

\* C5: in every report that is not an error report, each of the sections
\* flaky, failing, todo and skipped is present if and only if at least one
\* test was classified into it, and a section that is present counts its
\* records: never zero.
C5_SectionPresentIffNonEmpty ==
    (reportWritten /\ ~errorReport) =>
        \A key \in {"flaky", "failing", "todo", "skipped"} :
            /\ (key \in sectionSet(writtenReport)) <=> (classifiedInto(key) > 0)
            /\ key \in sectionSet(writtenReport) =>
                  /\ sectionLine(writtenReport, key).kind = "header"
                  /\ sectionLine(writtenReport, key).n = classifiedInto(key)

C5_Witness ==
    /\ impl = "playwright"
    /\ reportWritten
    /\ Len(suite) = 2
    /\ classifiedInto("flaky") = 1
    /\ classifiedInto("skipped") = 1
    /\ sectionsOf(writtenReport) = <<"passing", "flaky", "skipped">>

\* C3: every end-of-run invocation produces exactly one document: writeReport
\* is called exactly once on every path, and it hands the document to exactly
\* one sink.  Said here of the runs in which no file system call failed.
C3_OneDocumentToOneSink ==
    (pc = "ended" /\ thrown \notin {"mkdir", "writeFile"}) =>
        /\ calls = 1
        /\ Cardinality({k \in 1..Len(sinks) : sinks[k].what = "report"}) = 1

\* the place of a section in the fixed order
sectionRank(key) ==
    CASE key = "duration" -> 1
      [] key = "passing"  -> 2
      [] key = "flaky"    -> 3
      [] key = "failing"  -> 4
      [] key = "todo"     -> 5
      [] key = "skipped"  -> 6
      [] OTHER -> 0

\* C4: every report that is not an error report has the passing section, and
\* its sections stand in the order duration, passing, flaky, failing, todo,
\* skipped.
C4_SectionsInFixedOrder ==
    (reportWritten /\ ~errorReport) =>
        LET sections == sectionsOf(writtenReport)
        IN  /\ "passing" \in sectionSet(writtenReport)
            /\ \A k \in 1..Len(sections) : sectionRank(sections[k]) > 0
            /\ \A k, l \in 1..Len(sections) :
                  k < l => sectionRank(sections[k]) < sectionRank(sections[l])

---------------------------------------------------------------------------
(* Properties of the failing section *)

\* the failures array of the Vitest run that ended
vitestFailures == IF impl = "vitest" THEN reportOf(suite).failures ELSE reportOf2(suite).failures

\* the fields a failure record holds
failureFields(f) ==
    {"at"}
    \cup (IF f.expected # Undefined /\ f.got # Undefined THEN {"expected", "got"} ELSE {})
    \cup (IF f.error # Undefined THEN {"error"} ELSE {})

\* C8: the failing section is a table (a header with a field list, one row
\* per failure) exactly when all failure records hold the same fields, and a
\* list of '- at:' blocks exactly when they do not.
C8_TabularExactlyWhenUniform ==
    (reportWritten /\ impl \in {"vitest", "vitest2"}
       /\ "failing" \in sectionSet(writtenReport)) =>
        LET failures == vitestFailures
            uniform == \A i, j \in 1..Len(failures) :
                           failureFields(failures[i]) = failureFields(failures[j])
        IN  (sectionLine(writtenReport, "failing").fields # <<>>) <=> uniform

\* the lines up to the next section
RECURSIVE bodyOf(_)
bodyOf(lines) ==
    IF lines = <<>> \/ (Head(lines).kind \in {"scalar", "header"} /\ Head(lines).indent = 0)
    THEN <<>>
    ELSE <<Head(lines)>> \o bodyOf(Tail(lines))

\* the lines of a body cut into blocks, a block opening at each '- at:' line
RECURSIVE blocksOf(_, _)
blocksOf(lines, acc) ==
    IF lines = <<>> THEN acc
    ELSE IF Head(lines).kind = "item" \/ acc = <<>>
    THEN blocksOf(Tail(lines), Append(acc, <<Head(lines)>>))
    ELSE blocksOf(Tail(lines), [acc EXCEPT ![Len(acc)] = Append(@, Head(lines))])

\* the blocks of the failing section of the written report
failingBlocks ==
    LET doc == writtenReport
        h == CHOOSE k \in 1..Len(doc) :
                 doc[k].kind = "header" /\ doc[k].indent = 0 /\ doc[k].key = "failing"
    IN  blocksOf(bodyOf(SubSeq(doc, h + 1, Len(doc))), <<>>)

\* a block that reports a parameter group, and the count its header states
isGroup(block) == \E k \in 1..Len(block) : block[k].kind = "header" /\ block[k].key = "parameters"
groupCount(block) ==
    block[CHOOSE k \in 1..Len(block) : block[k].kind = "header" /\ block[k].key = "parameters"].n

\* the failures a block's lines render
membersOf(block) == {block[k].src : k \in 1..Len(block)} \ {0}

\* a run of the first definition that wrote a failing section
groupingRun == reportWritten /\ impl = "vitest" /\ "failing" \in sectionSet(writtenReport)

\* C9: two failures are reported under the same '- at:' parameter group if
\* and only if both carry the each flag and have the same location string.  A
\* failure without the flag has a block of its own that is no parameter group,
\* even when it shares its location; the flagged failures of one location
\* have one parameter group between them, which counts all of them and
\* renders none but them; flagged failures of different locations have
\* different groups.
C9_GroupedIffFlaggedAndSameLocation ==
    groupingRun =>
        LET failures == vitestFailures
            blocks == failingBlocks
            flagged == {i \in 1..Len(failures) : failures[i].each}
            plain == {i \in 1..Len(failures) : ~failures[i].each}
            mates(i) == {j \in flagged : failures[j].at = failures[i].at}
        IN  /\ \A i \in plain :
                  /\ Cardinality({b \in 1..Len(blocks) : i \in membersOf(blocks[b])}) = 1
                  /\ \A b \in 1..Len(blocks) :
                        i \in membersOf(blocks[b]) =>
                            membersOf(blocks[b]) = {i} /\ ~isGroup(blocks[b])
            /\ \A i \in flagged :
                  /\ Cardinality({b \in 1..Len(blocks) :
                                    isGroup(blocks[b]) /\ blocks[b][1].text = failures[i].at}) = 1
                  /\ \A b \in 1..Len(blocks) :
                        (isGroup(blocks[b]) /\ blocks[b][1].text = failures[i].at) =>
                            /\ membersOf(blocks[b]) \subseteq mates(i)
                            /\ groupCount(blocks[b]) = Cardinality(mates(i))
            /\ Len(blocks) = Cardinality(plain) + Cardinality({failures[i].at : i \in flagged})

C9_Witness ==
    /\ groupingRun
    /\ Len(vitestFailures) = 3
    /\ vitestFailures[1].each /\ ~vitestFailures[2].each /\ vitestFailures[3].each
    /\ vitestFailures[1].at = vitestFailures[2].at
    /\ vitestFailures[1].at = vitestFailures[3].at
    /\ Len(failingBlocks) = 2
    /\ membersOf(failingBlocks[1]) = {2}
    /\ membersOf(failingBlocks[2]) = {1, 3}

\* the locations of the flagged failures, each once, in the order of their
\* first occurrence
RECURSIVE firstOccurrences(_, _, _)
firstOccurrences(failures, i, seen) ==
    IF i > Len(failures) THEN seen
    ELSE IF failures[i].each /\ \A k \in 1..Len(seen) : seen[k] # failures[i].at
    THEN firstOccurrences(failures, i + 1, Append(seen, failures[i].at))
    ELSE firstOccurrences(failures, i + 1, seen)

\* the blocks of the failing section that report a parameter group
RECURSIVE groupBlocks(_)
groupBlocks(blocks) ==
    IF blocks = <<>> THEN <<>>
    ELSE (IF isGroup(Head(blocks)) THEN <<Head(blocks)>> ELSE <<>>) \o groupBlocks(Tail(blocks))

\* C10: parameter groups are emitted in the order in which their locations
\* first occur among the flagged failures, and the rows of a group stand in
\* the order of its failures in the input: the group opens with its first
\* failure and the rows' failures have increasing positions.
C10_GroupsInFirstOccurrenceOrder ==
    groupingRun =>
        LET failures == vitestFailures
            groups == groupBlocks(failingBlocks)
        IN  /\ [k \in 1..Len(groups) |-> groups[k][1].text] = firstOccurrences(failures, 1, <<>>)
            /\ \A g \in 1..Len(groups) :
                  LET block == groups[g]
                      rows == {k \in 1..Len(block) : block[k].kind = "row"}
                  IN  /\ \A j \in 1..Len(failures) :
                            (failures[j].each /\ failures[j].at = block[1].text) =>
                                block[1].src <= j
                      /\ \A k, l \in rows : k < l => block[k].src < block[l].src
                      /\ \A k \in rows :
                            /\ failures[block[k].src].each
                            /\ failures[block[k].src].at = block[1].text

C10_Witness ==
    /\ groupingRun
    /\ Len(vitestFailures) = 3
    /\ \A i \in 1..3 : vitestFailures[i].each
    /\ vitestFailures[1].at = vitestFailures[3].at
    /\ vitestFailures[1].at # vitestFailures[2].at
    /\ Len(failingBlocks) = 2
    /\ [k \in 1..Len(failingBlocks[1]) |-> failingBlocks[1][k].src] = <<1, 0, 1, 3>>
    /\ membersOf(failingBlocks[2]) = {2}

\* the parameters header of a group block
groupHeader(block) ==
    block[CHOOSE k \in 1..Len(block) : block[k].kind = "header" /\ block[k].key = "parameters"]

---------------------------------------------------------------------------
(* Order of the records inside a section *)

\* the rows of a table section of the written report
tableRows(key) ==
    LET doc == writtenReport
        h == CHOOSE k \in 1..Len(doc) :
                 doc[k].kind = "header" /\ doc[k].indent = 0 /\ doc[k].key = key
    IN  bodyOf(SubSeq(doc, h + 1, Len(doc)))

\* the blocks of the failing section, none when the section is absent
failingBlocksIfAny ==
    IF "failing" \in sectionSet(writtenReport) THEN failingBlocks ELSE <<>>

\* the rows of a todo or skipped table are the records of the input, each
\* once, in the order of the input
rowsFollowInput(key, records) ==
    IF key \in sectionSet(writtenReport)
    THEN /\ [k \in 1..Len(tableRows(key)) |-> tableRows(key)[k].src] = [k \in 1..Len(records) |-> k]
         /\ \A k \in 1..Len(records) :
               tableRows(key)[k].text = records[k].at \o <<",">> \o toonQuote(records[k].name)
    ELSE records = <<>>

\* a run of the first definition of the Vitest reporter that wrote its report
firstDefinitionRun == reportWritten /\ impl = "vitest"

---------------------------------------------------------------------------
(* Location strings *)

\* the location string the specification asks for: path:line:col when a line
\* is known, the column written as 0 when unknown, the bare path otherwise
expectedAt(path, line, column) ==
    IF line >= 1
    THEN path \o <<":">> \o NumStr(line) \o <<":">> \o NumStr(IF column >= 1 THEN column ELSE 0)
    ELSE path

\* the location string expected of a failure of the Vitest reporter
expectedFailureAt(t) ==
    IF t.error.has /\ t.error.stack.has
    THEN expectedAt(t.error.stack.relPath, t.error.stack.line, t.error.stack.column)
    ELSE expectedAt(t.file, t.loc.line, t.loc.column)

\* the location string expected of a record of the Playwright reporter
pwExpectedAt(test, key) ==
    LET error == lastResult(test).error
    IN  IF key = "failing" /\ error.has /\ error.loc.has
        THEN expectedAt(error.loc.file, error.loc.line, error.loc.column)
        ELSE expectedAt(test.location.file, test.location.line, test.location.column)

\* the lines of a section that open a record: rows of a table, '- at:' lines
\* of a list
recordLines(key) ==
    LET body == tableRows(key)
    IN  IF key \in sectionSet(writtenReport) /\ sectionLine(writtenReport, key).kind = "header"
        THEN SelectSeq(body, LAMBDA l : l.kind \in {"row", "item"})
        ELSE <<>>

\* the tests of the Playwright run that a section reports
pwSectionTests(key) ==
    bucket(suite, CASE key = "failing" -> "failed" [] key = "passing" -> "passed" [] OTHER -> key, 1)

\* C13: every failure, skipped, todo, flaky and timing record carries a
\* non-empty at string: path:line:col when a line is known (col written 0
\* when the column is unknown), the bare path when no line is known; a failure
\* whose error has no location of its own carries the declared location of
\* its test.
C13_EveryRecordHasItsLocation ==
    (reportWritten /\ ~errorReport) =>
        /\ impl = "playwright" =>
              \A key \in {"passing", "flaky", "failing", "todo", "skipped"} :
                  LET records == recordLines(key)
                      tests == pwSectionTests(key)
                  IN  (key # "passing" \/ options.timing) =>
                          /\ Len(records) = Len(tests)
                          /\ \A k \in 1..Len(records) :
                                /\ records[k].vals[1] # <<>>
                                /\ records[k].vals[1] = pwExpectedAt(suite[tests[records[k].src]], key)
        /\ impl = "vitest" =>
              /\ \A j \in 1..Len(vitestFailures) :
                    LET t == suite[testsWhere(suite, "state", "fail", 1)[j]]
                    IN  /\ vitestFailures[j].at # <<>>
                        /\ vitestFailures[j].at = expectedFailureAt(t)
                        /\ \E b \in 1..Len(failingBlocks) :
                              /\ failingBlocks[b][1].text = expectedFailureAt(t)
                              /\ isGroup(failingBlocks[b]) = vitestFailures[j].each
              /\ \A key \in {"todo", "skipped"} :
                    LET tests == testsWhere(suite, "mode", IF key = "todo" THEN "todo" ELSE "skip", 1)
                        rows == recordLines(key)
                    IN  /\ Len(rows) = Len(tests)
                        /\ \A k \in 1..Len(rows) :
                              LET t == suite[tests[k]]
                                  at == expectedAt(t.file, t.loc.line, t.loc.column)
                              IN  /\ at # <<>>
                                  /\ rows[k].text = at \o <<",">> \o toonQuote(t.name)

\* a failure without location of its own and without line: the bare path
C13_Witness ==
    /\ firstDefinitionRun
    /\ Len(suite) = 2
    /\ Len(vitestFailures) = 1
    /\ ~suite[1].loc.has /\ suite[1].state = "fail" /\ ~suite[1].error.has
    /\ failingBlocks[1][1].text = <<"c">>
    /\ suite[2].mode = "skip"
    /\ tableRows("skipped")[1].text = <<"a", ":", "2", ":", "0", ",", DQ, "a", ",", "b", DQ>>

---------------------------------------------------------------------------
(* The name filter *)

\* the line that opens the passing section carries the '(filtered)' marker
passingMarked ==
    LET line == sectionLine(writtenReport, "passing")
    IN  line.text # <<>> /\ line.text[Len(line.text)] = " (filtered)"

\* C14: whenever a name filter is active (grep or grepInvert configured) and
\* the report is not an error report, the passing line carries the
\* '(filtered)' marker, when passing is a plain count and when it is a timing
\* table; without a filter the marker never appears.
C14_FilteredMarkerIffFilterActive ==
    (impl = "playwright" /\ reportWritten /\ ~errorReport) =>
        (passingMarked <=> config.grep)

\* the run had a name filter: testNamePattern of the Vitest configuration,
\* grep or grepInvert of the Playwright configuration
filterActive ==
    IF impl = "playwright" THEN config.grep ELSE ctx.testNamePattern

\* C15: when a name filter is active, a report that is not an error report
\* holds, besides its passing line, a scalar line 'skipped: <n>' (n being the
\* number of tests the filter left out; the formula asks for the line alone).
C15_SkippedCountWhenFiltered ==
    (reportWritten /\ ~errorReport /\ filterActive) =>
        \E k \in 1..Len(writtenReport) :
            /\ writtenReport[k].kind = "scalar"
            /\ writtenReport[k].key = "skipped"
            /\ writtenReport[k].indent = 0

---------------------------------------------------------------------------
(* The timing option of the Playwright reporter *)

\* a run of the Playwright reporter that wrote a report of its tests
pwTestReport == impl = "playwright" /\ reportWritten /\ ~errorReport

---------------------------------------------------------------------------
(* Properties of formatDuration *)

digitValue(c) == CHOOSE d \in 0..9 : DigitChar(d) = c

\* a duration string read back: the numbers with their units, in the order
\* of the string; n is the number read so far
RECURSIVE readDuration(_, _)
readDuration(text, n) ==
    IF text = <<>> THEN <<>>
    ELSE IF Head(text) \in Digits
    THEN readDuration(Tail(text), 10 * n + digitValue(Head(text)))
    ELSE <<[n |-> n, unit |-> Head(text)]>> \o readDuration(Tail(text), 0)

\* the string that writes the given numbers with their units
RECURSIVE writeDuration(_)
writeDuration(parts) ==
    IF parts = <<>> THEN <<>>
    ELSE NumStr(Head(parts).n) \o <<Head(parts).unit>> \o writeDuration(Tail(parts))

unitRank(u) == CASE u = "h" -> 1 [] u = "m" -> 2 [] u = "s" -> 3 [] u = "ms" -> 4 [] OTHER -> 0

unitMs(u) == CASE u = "h" -> 3600000 [] u = "m" -> 60000 [] u = "s" -> 1000 [] OTHER -> 1

RECURSIVE totalMs(_)
totalMs(parts) ==
    IF parts = <<>> THEN 0 ELSE Head(parts).n * unitMs(Head(parts).unit) + totalMs(Tail(parts))

\* the number written with a unit, 0 when the unit is not written
written(parts, u) ==
    IF \E k \in 1..Len(parts) : parts[k].unit = u
    THEN parts[CHOOSE k \in 1..Len(parts) : parts[k].unit = u].n
    ELSE 0

durationFormatted == impl = "formatDuration" /\ pc = "ended"

\* C17: formatDuration of a non-negative whole number of milliseconds writes
\* its units in the order h, m, s, ms, a unit exactly when its component is
\* not zero, except that the input 0 gives '0ms'; the minutes and seconds
\* written are below 60, the milliseconds below 1000, and
\* h*3600000 + m*60000 + s*1000 + ms is the input.
C17_DurationUnits ==
    durationFormatted =>
        LET ms == result.duration
            parts == readDuration(value, 0)
        IN  /\ writeDuration(parts) = value
            /\ \A k \in 1..Len(parts) : unitRank(parts[k].unit) > 0
            /\ \A j, k \in 1..Len(parts) : j < k => unitRank(parts[j].unit) < unitRank(parts[k].unit)
            /\ IF ms = 0
               THEN value = <<"0", "ms">>
               ELSE \A k \in 1..Len(parts) : parts[k].n # 0
            /\ written(parts, "m") < 60
            /\ written(parts, "s") < 60
            /\ written(parts, "ms") < 1000
            /\ totalMs(parts) = ms

\* the call made on a duration all four components of which are not zero
C17_Witness ==
    /\ durationFormatted
    /\ result.duration = 3661001
    /\ value = <<"1", "h", "1", "m", "1", "s", "1", "ms">>

---------------------------------------------------------------------------
(* Flaky tests *)

\* the tests whose final attempt passed after an attempt that ended in one
\* of the given statuses, in the order of the suite
RECURSIVE passedAfter(_, _)
passedAfter(statuses, i) ==
    IF i > Len(suite) THEN <<>>
    ELSE (IF /\ Len(suite[i].results) > 1
             /\ lastResult(suite[i]).status = "passed"
             /\ \E k \in 1..(Len(suite[i].results) - 1) : suite[i].results[k].status \in statuses
          THEN <<i>> ELSE <<>>) \o passedAfter(statuses, i + 1)

\* the number of tests whose final attempt passed
finallyPassed ==
    Cardinality({i \in 1..Len(suite) :
                   Len(suite[i].results) > 0 /\ lastResult(suite[i]).status = "passed"})

\* the flaky section holds exactly the tests that passed after an attempt
\* with one of the given statuses, each with retries = attempts - 1, and the
\* passing count leaves them out
flakyAre(statuses) ==
    LET flaky == passedAfter(statuses, 1)
        rows == recordLines("flaky")
    IN  /\ Len(rows) = Len(flaky)
        /\ \A k \in 1..Len(rows) :
              LET test == suite[flaky[k]]
              IN  /\ Len(test.results) - 1 >= 1
                  /\ rows[k].vals = <<pw_at(test), test.title, NumStr(Len(test.results) - 1)>>
        /\ sectionLine(writtenReport, "passing").n = finallyPassed - Len(flaky)

\* the statuses of an attempt with which the reporter counts a test as failed
\* (toon-playwright-reporter.ts:397)
failedStatuses == {"failed", "timedOut", "interrupted"}

\* C18: a test is reported as flaky exactly when it failed on at least one
\* attempt and its final attempt passed; a flaky test is not counted in
\* passing, and its retries are its attempts minus one (at least 1).
C18_FlakyIffFailedThenPassed ==
    pwTestReport => flakyAre(failedStatuses)

\* the same with 'failed' read as the status 'failed' alone, as isFlaky tests it
flakyByFailedStatusAlone ==
    pwTestReport => flakyAre({"failed"})

---------------------------------------------------------------------------
(* Skipped and todo tests of the Playwright reporter *)

\* the tests whose final status is skipped and whose fixme annotation is as
\* given, in the order of the suite
RECURSIVE finallySkipped(_, _)
finallySkipped(fixme, i) ==
    IF i > Len(suite) THEN <<>>
    ELSE (IF /\ Len(suite[i].results) > 0
             /\ lastResult(suite[i]).status = "skipped"
             /\ suite[i].fixme = fixme
          THEN <<i>> ELSE <<>>) \o finallySkipped(fixme, i + 1)

\* the rows of a section are the {at,name} records of the given tests
rowsAre(key, tests) ==
    LET rows == recordLines(key)
    IN  /\ Len(rows) = Len(tests)
        /\ \A k \in 1..Len(rows) :
              rows[k].vals = <<pw_at(suite[tests[k]]), suite[tests[k]].title>>

\* C19: a test whose final status is skipped is reported under todo exactly
\* when it carries a fixme annotation and under skipped otherwise, never
\* under both; a fixme annotation on a test whose final status is not
\* skipped does not move it to todo.
C19_TodoIffSkippedAndFixme ==
    pwTestReport =>
        /\ rowsAre("todo", finallySkipped(TRUE, 1))
        /\ rowsAre("skipped", finallySkipped(FALSE, 1))
        /\ \A i \in 1..Len(suite) :
              (Len(suite[i].results) > 0 /\ lastResult(suite[i]).status # "skipped") =>
                  classify(suite[i]) \notin {"todo", "skipped"}

\* a run with two fixme tests, one skipped and one that ran and passed: one
\* todo record, no skipped section
C19_Witness ==
    /\ pwTestReport
    /\ Len(suite) = 2
    /\ \E i, j \in 1..2 :
          /\ suite[i].fixme /\ suite[i].results # <<>> /\ lastResult(suite[i]).status = "skipped"
          /\ suite[j].fixme /\ suite[j].results # <<>> /\ lastResult(suite[j]).status = "passed"
    /\ sectionLine(writtenReport, "todo").n = 1
    /\ "skipped" \notin sectionSet(writtenReport)

---------------------------------------------------------------------------
(* The empty suite *)

\* onEnd found no test in the suite that onBegin handed over
emptySuiteRun ==
    impl = "playwright" /\ reportWritten /\ didBegin /\ Len(suite) = 0

\* C20: when the suite is empty at the end of the run the error message is
\* '<n> test(s) discovered but not executed' if onBegin saw n > 0 tests;
\* otherwise 'Test run was interrupted' for an interrupted run, 'Test run
\* timed out' for a run that timed out and 'No test files found' for every
\* other status, which is never written when tests were discovered.
C20_EmptySuiteMessage ==
    emptySuiteRun =>
        LET text == sectionLine(writtenReport, "error").text
        IN  /\ sectionsOf(writtenReport) = <<"error">>
            /\ Len(writtenReport) = 1
            /\ IF testsDiscovered > 0
               THEN text = NumStr(testsDiscovered) \o <<" test(s) discovered but not executed">>
               ELSE text = (CASE result.status = "interrupted" -> <<"Test run was interrupted">>
                              [] result.status = "timedout" -> <<"Test run timed out">>
                              [] OTHER -> <<"No test files found">>)
            /\ testsDiscovered > 0 => text # <<"No test files found">>

\* an interrupted run at whose end the two tests onBegin saw are gone
C20_Witness ==
    /\ emptySuiteRun
    /\ testsDiscovered = 2
    /\ result.status = "interrupted"
    /\ writtenReport[1].text = <<"2", " test(s) discovered but not executed">>

---------------------------------------------------------------------------
(* Runs that timed out before a test was executed *)

\* a Playwright run that ended with the status timedout and without a test
\* that has a result
timedOutUnexecuted ==
    /\ impl = "playwright"
    /\ reportWritten
    /\ result.status = "timedout"
    /\ \A i \in 1..Len(suite) : Len(suite[i].results) = 0

\* the written message names the timeout and is not the message the same
\* run gets with another final status
timeoutTold ==
    /\ sectionsOf(writtenReport) = <<"error">>
    /\ categoryOf(writtenReport[1].text) = "timedout"
    /\ \A res \in PwResultInputs :
          res.status # "timedout" => pw_output(res) # writtenReport

\* C21 as stated: whenever a run ends with the status timedout and no test
\* was executed, the error message names the timeout and differs from the
\* message of the same situation with another status.
C21_TimeoutAlwaysTold ==
    timedOutUnexecuted => timeoutTold

\* C21, amended: the message names the timeout and differs from that of
\* another status when onBegin ran and the suite still holds what onBegin
\* saw (no test at all, or tests none of which has a result); before onBegin,
\* and for a suite that lost the tests onBegin counted, the message is the
\* same for every status.
C21_TimeoutToldUnlessTestsLost ==
    timedOutUnexecuted =>
        IF didBegin /\ (Len(suite) > 0 \/ testsDiscovered = 0)
        THEN timeoutTold
        ELSE /\ sectionsOf(writtenReport) = <<"error">>
             /\ categoryOf(writtenReport[1].text) = "none"
             /\ \A res \in PwResultInputs : pw_output(res) = writtenReport

\* a run that timed out with two tests in the suite, none of them executed
C21_Witness ==
    /\ timedOutUnexecuted
    /\ Len(suite) = 2
    /\ writtenReport[1].text = <<"2", " test(s) discovered but not executed", " (timed out)">>

---------------------------------------------------------------------------
(* Reports written to a file *)

\* a document without color codes and without hyperlinks
plainDocument(doc) ==
    \A k \in 1..Len(doc) : doc[k].color = "" /\ ~doc[k].link

\* C22: a report written to a file holds no ANSI color and no hyperlink
\* escape sequence, whether the file is named by the reporter's outputFile
\* option or by the runner configuration's output file for the reporter.
C22_FileReportIsPlain ==
    \A k \in 1..Len(sinks) :
        (sinks[k].sink = "file" /\ sinks[k].what = "report") => plainDocument(sinks[k].doc)

\* the end-of-run hook ran in a setup in which writeReport goes to a file
fileBound ==
    /\ pc = "ended"
    /\ ~options.capture
    /\ options.outputFile \/ (impl \in {"vitest", "vitest2"} /\ ctx.outputFile)

\* the report went to the file and its notice to standard output
fileWritten ==
    /\ Len(sinks) = 2
    /\ sinks[1].sink = "file" /\ sinks[1].what = "report"
    /\ sinks[2].sink = "stdout" /\ sinks[2].what = "notice"

\* C23: when creating the output directory or writing the report file fails,
\* writeReport and the end-of-run hook that called it fail with that error:
\* the 'TOON report written' message is not logged and the report is not
\* diverted to standard output.  A file-bound run ends either with the file
\* written and nothing thrown, or with an error thrown and nothing delivered.
C23_FileFailurePropagates ==
    /\ fileBound =>
          \/ thrown = "none" /\ fileWritten
          \/ thrown # "none" /\ sinks = <<>>
    /\ thrown \in {"mkdir", "writeFile"} => (fileBound /\ sinks = <<>>)

\* onTestRunEnd ended by the rejection of fs.writeFile, the file named by the
\* runner configuration
C23_Witness ==
    /\ fileBound
    /\ impl = "vitest"
    /\ ~options.outputFile
    /\ thrown = "writeFile"
    /\ sinks = <<>>

---------------------------------------------------------------------------
(* Two generations from the same results *)

\* onTestRunEnd has written two reports for the same tests and options
twoGenerations ==
    /\ pc = "ended"
    /\ calls = 2
    /\ Len(sinks) = 2
    /\ sinks[1].what = "report" /\ sinks[2].what = "report"

\* a document without its color codes and hyperlinks
uncolored(doc) == [k \in 1..Len(doc) |-> [doc[k] EXCEPT !.color = "", !.link = FALSE]]

---------------------------------------------------------------------------
(* The detail of a failure record *)

\* the value a record of the Playwright reporter holds under a key,
\* Undefined when it has no such key or the key holds undefined
fieldOf(obj, key) ==
    IF \E j \in 1..Len(obj.keys) : obj.keys[j] = key
    THEN obj.vals[CHOOSE j \in 1..Len(obj.keys) : obj.keys[j] = key]
    ELSE Undefined

\* the failed tests of the run that ended, in the order of the suite
failedIndices ==
    IF impl = "playwright" THEN bucket(suite, "failed", 1)
    ELSE testsWhere(suite, "state", "fail", 1)

\* the detail fields of the failure record built for the k-th failed test
failureDetail(k) ==
    IF impl = "playwright"
    THEN LET f == pw_failure(suite[failedIndices[k]])
         IN  [expected |-> fieldOf(f, "expected"), got |-> fieldOf(f, "got"),
              error |-> fieldOf(f, "error")]
    ELSE [expected |-> vitestFailures[k].expected, got |-> vitestFailures[k].got,
          error |-> vitestFailures[k].error]

\* the error object of the k-th failed test: errors[0] of the Vitest result,
\* errors[0] of the last Playwright result
errorOf(k) ==
    IF impl = "playwright" THEN lastResult(suite[failedIndices[k]]).error
    ELSE suite[failedIndices[k]].error

assertionDetail(d) == d.expected # Undefined /\ d.got # Undefined /\ d.error = Undefined

errorDetail(d) == d.error # Undefined /\ d.expected = Undefined /\ d.got = Undefined

noDetail(d) == d.error = Undefined /\ d.expected = Undefined /\ d.got = Undefined

\* a run of a reporter ended with its failure records built
failuresBuilt == pc = "ended" /\ impl \in {"vitest", "playwright"} /\ reportWritten

---------------------------------------------------------------------------
(* Tables of the written document *)

\* the number of row lines that follow line h of the document without a
\* line of another kind in between
RECURSIVE rowsAfter(_, _)
rowsAfter(doc, h) ==
    IF h + 1 <= Len(doc) /\ doc[h + 1].kind = "row" THEN 1 + rowsAfter(doc, h + 1) ELSE 0

\* the lines of the document that are table headers: name[N]{fields}:
tableHeaders(doc) == {h \in 1..Len(doc) : doc[h].kind = "header" /\ doc[h].fields # <<>>}

\* C26: every table header name[N]{fields}: of the report (todo, skipped,
\* and the parameters tables of either field set) is followed by exactly N
\* row lines, one per record of the collection behind it.
C26_HeaderCountsItsRows ==
    (reportWritten /\ impl = "vitest") =>
        \A h \in tableHeaders(writtenReport) :
            rowsAfter(writtenReport, h) = writtenReport[h].n

\* the number of commas of a row that stand outside double quotes; inside
\* quotes a backslash takes the next character with it
RECURSIVE commasOutside(_, _)
commasOutside(text, inQuote) ==
    IF text = <<>> THEN 0
    ELSE IF inQuote /\ Head(text) = BSL /\ Len(text) >= 2
    THEN commasOutside(Tail(Tail(text)), TRUE)
    ELSE IF Head(text) = DQ THEN commasOutside(Tail(text), ~inQuote)
    ELSE (IF Head(text) = "," /\ ~inQuote THEN 1 ELSE 0) + commasOutside(Tail(text), inQuote)

\* C27: every row under a table header that declares k field names holds
\* exactly k values when split at the commas outside double quotes, whatever
\* the at, name, expected, got and error values are, also when they hold a
\* comma or a double quote.
C27_RowHasOneValuePerField ==
    (reportWritten /\ impl = "vitest") =>
        \A h \in tableHeaders(writtenReport) :
            \A j \in 1..rowsAfter(writtenReport, h) :
                commasOutside(writtenReport[h + j].text, FALSE) + 1 = Len(writtenReport[h].fields)

\* the same for the runs none of whose file names holds a comma: the names,
\* expected, got and error values go through toonQuote, the location does not
rowsSplitWhenPathsPlain ==
    (reportWritten /\ impl = "vitest"
       /\ \A i \in 1..Len(suite) : ~includes(suite[i].file, ",")) =>
        \A h \in tableHeaders(writtenReport) :
            \A j \in 1..rowsAfter(writtenReport, h) :
                commasOutside(writtenReport[h + j].text, FALSE) + 1 = Len(writtenReport[h].fields)

---------------------------------------------------------------------------
(* The block of an ungrouped failure *)

\* the lines of a block as pairs of key and value
keyedLines(block) == [k \in 1..Len(block) |-> <<block[k].key, block[k].text>>]

\* the lines the list form asks for a failure record
linesFor(f) ==
    <<<<"at", f.at>>>>
    \o (IF f.expected # Undefined /\ f.got # Undefined
        THEN <<<<"expected", toonQuote(f.expected)>>, <<"got", toonQuote(f.got)>>>>
        ELSE IF f.error # Undefined
        THEN <<<<"error", toonQuote(f.error)>>>>
        ELSE <<>>)

\* C28: in list mode every ungrouped failure has exactly one block: its
\* '- at:' line followed by exactly the lines of the detail fields the record
\* holds (expected then got for an assertion record, one error line for an
\* error record), each once and in that order, and no line for a field the
\* record does not hold.
C28_OneBlockPerUngroupedFailure ==
    groupingRun =>
        \A i \in 1..Len(vitestFailures) :
            ~vitestFailures[i].each =>
                /\ Cardinality({b \in 1..Len(failingBlocks) : i \in membersOf(failingBlocks[b])}) = 1
                /\ \E b \in 1..Len(failingBlocks) :
                      /\ membersOf(failingBlocks[b]) = {i}
                      /\ keyedLines(failingBlocks[b]) = linesFor(vitestFailures[i])

\* a run with an assertion failure, a thrown error and a failed test without
\* error object, none of them parameterized: blocks of three, two and one line
C28_Witness ==
    /\ groupingRun
    /\ Len(vitestFailures) = 3
    /\ \A i \in 1..3 : ~vitestFailures[i].each
    /\ Len(failingBlocks) = 3
    /\ Len(failingBlocks[1]) = 3
    /\ Len(failingBlocks[2]) = 2
    /\ Len(failingBlocks[3]) = 1

---------------------------------------------------------------------------
(* The count of the failing header *)

\* the sum of the counts the parameter groups among the blocks state
RECURSIVE groupSizes(_)
groupSizes(blocks) ==
    IF blocks = <<>> THEN 0
    ELSE (IF isGroup(Head(blocks)) THEN groupCount(Head(blocks)) ELSE 0) + groupSizes(Tail(blocks))

\* the number of blocks that are no parameter group
ungroupedBlocks == Cardinality({b \in 1..Len(failingBlocks) : ~isGroup(failingBlocks[b])})

\* C29: the N of the 'failing[N]:' header is the number of failure records
\* of the input: the number of ungrouped blocks plus the sum of the sizes of
\* the parameter groups.  It is never below the number of '- at:' blocks under
\* the header and exceeds it as soon as a group has two members.
C29_FailingCountsRecords ==
    groupingRun =>
        LET n == sectionLine(writtenReport, "failing").n
        IN  /\ n = Len(testsWhere(suite, "state", "fail", 1))
            /\ n = ungroupedBlocks + groupSizes(failingBlocks)
            /\ n >= Len(failingBlocks)
            /\ (n > Len(failingBlocks)) <=>
                  \E b \in 1..Len(failingBlocks) :
                      isGroup(failingBlocks[b]) /\ groupCount(failingBlocks[b]) >= 2

\* three failures under two '- at:' blocks: one ungrouped, one group of two
C29_Witness ==
    /\ groupingRun
    /\ sectionLine(writtenReport, "failing").n = 3
    /\ Len(failingBlocks) = 2
    /\ ~isGroup(failingBlocks[1])
    /\ isGroup(failingBlocks[2])
    /\ groupCount(failingBlocks[2]) = 2

---------------------------------------------------------------------------
(* The classification of the Playwright reporter as a partition *)

\* the count a section of the written report states, 0 for an absent section
countOf(key) ==
    IF key \in sectionSet(writtenReport) THEN sectionLine(writtenReport, key).n ELSE 0

\* the sections a test with the given last status can be counted in
sectionsFor(test) ==
    LET status == lastResult(test).status
    IN  CASE status = "passed" -> {"passing", "flaky"}
          [] status = "skipped" -> {"todo", "skipped"}
          [] OTHER -> {"failing"}

\* the tests counted in a section, as the indices of the suite
countedIn(key) ==
    LET tests == pwSectionTests(key) IN {tests[k] : k \in 1..Len(tests)}

PwSections == {"passing", "flaky", "failing", "todo", "skipped"}

\* C30: in every Playwright report that is not an error report each test
\* with at least one result is counted in exactly one of passing, flaky,
\* failing, todo and skipped, the five counts sum to the number of tests with
\* a result, and a test without result is counted in none.
C30_ClassificationIsPartition ==
    pwTestReport =>
        /\ countOf("passing") + countOf("flaky") + countOf("failing") + countOf("todo")
             + countOf("skipped")
               = Cardinality({i \in 1..Len(suite) : Len(suite[i].results) > 0})
        /\ \A key \in PwSections : countOf(key) = Cardinality(countedIn(key))
        /\ \A i \in 1..Len(suite) :
              IF Len(suite[i].results) > 0
              THEN /\ Cardinality({key \in PwSections : i \in countedIn(key)}) = 1
                   /\ \E key \in sectionsFor(suite[i]) : i \in countedIn(key)
              ELSE \A key \in PwSections : i \notin countedIn(key)

\* a report for a suite of which one test was interrupted and the other
\* never ran
C30_Witness ==
    /\ pwTestReport
    /\ Len(suite) = 2
    /\ Len(suite[1].results) = 1
    /\ lastResult(suite[1]).status = "interrupted"
    /\ Len(suite[2].results) = 0
    /\ countOf("failing") = 1
    /\ countOf("passing") = 0

===========================================================================
